---- MODULE Spec2Model ----
(***************************************************************************)
(* Renexus: the Big-Five trait scorer (big_five_analyzer.py), the          *)
(* communication style learner (style_learner.py) and the persona core     *)
(* (ren_core.py).                                                          *)
(*                                                                         *)
(* Numbers.  Python floats are modelled as exact rationals <<n, d>> in     *)
(* lowest terms with d > 0.                                                *)
(*                                                                         *)
(* Text.  A str is a sequence of lexemes.  A lexeme is either one          *)
(* non-word character (" ", ".", "!", "?", "'") or a run of word           *)
(* characters (a TLA+ string such as "new").  Adjacent word lexemes form   *)
(* one longer run of word characters, exactly as in the str they stand for.*)
(***************************************************************************)
EXTENDS Integers, Sequences, FiniteSets, TLC

VARIABLES
    text,             \* argument of the last BigFiveAnalyzer.analyze_text call
    scores,           \* its return value (NoValue before the first call)
    user_scores,      \* argument of the last get_complementary_traits call
    complementary,    \* its return value
    message,          \* argument of the last analyze_message call
    user_patterns,    \* StyleLearner.user_patterns
    message_history,  \* StyleLearner.message_history
    analysis,         \* return value of the last analyze_message call
    ren_personality,  \* RenCore.ren_personality
    conversation_history, \* RenCore.conversation_history
    ren_response,     \* return value of the last chat call
    evolve_count,     \* number of _evolve_personality calls made so far
    heap,             \* the list objects the profiles refer to, by identity
    other_patterns,   \* StyleLearner.user_patterns of a second user's session
    other_history,    \* StyleLearner.message_history of that session
    other_personality, \* RenCore.ren_personality of that session
    summary,          \* a get_communication_summary result its caller still holds
    base_response,    \* argument of the last adapt_response_style call
    adapted,          \* its return value
    research_results, \* DigitalGuardian.research_results
    privacy_risks,    \* DigitalGuardian.privacy_risks
    user_info,        \* DigitalGuardian.user_info, set by start_research
    returned,         \* what the last DigitalGuardian call returned or raised
    last              \* name of the operation that ran last

\* the second session, what a caller holds, the guardian
other_vars == <<other_patterns, other_history, other_personality>>
caller_vars == <<summary, base_response, adapted>>
guardian_vars == <<research_results, privacy_risks, user_info, returned>>

vars == <<text, scores, user_scores, complementary, message, user_patterns,
          message_history, analysis, ren_personality, conversation_history,
          ren_response, evolve_count, heap, other_vars, caller_vars,
          guardian_vars, last>>

\* no dict returned yet
NoValue == [none |-> TRUE]
\* no reply returned yet
NoReply == "none"

(***************************************************************************)
(* Bounds of the model.                                                    *)
(***************************************************************************)
MaxTextLen == 4       \* lexemes in a text given to analyze_text
MaxMsgLen == 3        \* lexemes in a message given to analyze_message
MaxCalls == 3         \* analyze_message calls on one learner
MaxRepeat == 4        \* analyze_message calls that repeat one message
MaxChats == 3         \* chat calls on one RenCore
MaxEvolves == 95      \* _evolve_personality calls on one RenCore
GridDen == 10         \* user scores are k / GridDen, k in 0..GridDen
MaxKeys == 2          \* keys in a user_scores dict
MaxSteady == 21       \* analyze_message calls of a conversation of steady messages
MaxTrend == 6         \* analyze_message calls of a conversation whose trend is asked for
MaxStyle == 5         \* analyze_message calls before a response is adapted
MaxPieces == 2        \* pieces a base response is made of
MaxFindings == 4      \* findings a research process has stored
MaxTurns == 2         \* calls on each of two sessions

(***************************************************************************)
(* Exact rational arithmetic.                                              *)
(***************************************************************************)
Abs(n) == IF n < 0 THEN -n ELSE n

\* Euclid's algorithm, as a function so that each step works on values
GcdOf[p \in Nat \X Nat] == IF p[2] = 0 THEN p[1] ELSE GcdOf[<<p[2], p[1] % p[2]>>]
Gcd(a, b) == GcdOf[<<a, b>>]

\* the operators below are applications of functions, so that an operand
\* written as a long expression is evaluated once
Pairs == Int \X Int

ROf[p \in Pairs] ==
    LET n == p[1]
        d == p[2]
        g == Gcd(Abs(n), Abs(d))
        s == IF d < 0 THEN -1 ELSE 1
    IN  <<(s * n) \div g, (s * d) \div g>>
R(n, d) == ROf[<<n, d>>]

Lcm(a, b) == (a \div Gcd(a, b)) * b

RAddOf[p \in Pairs \X Pairs] ==
    LET a == p[1]
        b == p[2]
        l == Lcm(a[2], b[2])
    IN  R(a[1] * (l \div a[2]) + b[1] * (l \div b[2]), l)
RAdd(a, b) == RAddOf[<<a, b>>]
RNeg(a) == <<-a[1], a[2]>>
RSub(a, b) == RAdd(a, RNeg(b))
RMulOf[p \in Pairs \X Pairs] ==
    LET a == p[1]
        b == p[2]
        g1 == Gcd(Abs(a[1]), b[2])
        g2 == Gcd(Abs(b[1]), a[2])
        h1 == IF g1 = 0 THEN 1 ELSE g1
        h2 == IF g2 = 0 THEN 1 ELSE g2
    IN  R((a[1] \div h1) * (b[1] \div h2), (a[2] \div h2) * (b[2] \div h1))
RMul(a, b) == RMulOf[<<a, b>>]
RDivOf[p \in Pairs \X Pairs] ==
    LET a == p[1]
        b == p[2]
    IN  RMul(a, IF b[1] < 0 THEN <<-b[2], -b[1]>> ELSE <<b[2], b[1]>>)
RDiv(a, b) == RDivOf[<<a, b>>]
RLe(a, b) == RSub(a, b)[1] <= 0
RLt(a, b) == RSub(a, b)[1] < 0
RMinOf[p \in Pairs \X Pairs] == IF RLe(p[1], p[2]) THEN p[1] ELSE p[2]
RMin(a, b) == RMinOf[<<a, b>>]
RMaxOf[p \in Pairs \X Pairs] == IF RLe(p[1], p[2]) THEN p[2] ELSE p[1]
RMax(a, b) == RMaxOf[<<a, b>>]
RInt(n) == <<n, 1>>
RAbs(a) == <<Abs(a[1]), a[2]>>
Zero == RInt(0)
One == RInt(1)
Half == R(1, 2)
InUnit(a) == RLe(Zero, a) /\ RLe(a, One)

RECURSIVE SumSeq(_)
SumSeq(s) == IF s = <<>> THEN 0 ELSE Head(s) + SumSeq(Tail(s))

RECURSIVE SelectSeq2(_, _)
\* Python's [w for w in s if w in S]
SelectSeq2(s, S) ==
    IF s = <<>> THEN <<>>
    ELSE (IF Head(s) \in S THEN <<Head(s)>> ELSE <<>>) \o SelectSeq2(Tail(s), S)

\* Python's sum(1 for w in s if w in S)
CountIn(s, S) == Len(SelectSeq2(s, S))

(***************************************************************************)
(* Text primitives: str.lower, re.findall(r'\b\w+\b'), re.split, str.split,*)
(* str.strip, str.count, len.                                              *)
(***************************************************************************)
Whitespace == {" "}
SentenceEnd == {".", "!", "?"}
NonWordChars == Whitespace \cup SentenceEnd \cup {"'", "\"", "(", "-"}
IsWordLexeme(x) == x \notin NonWordChars

\* str.lower on one lexeme: the upper-case lexemes of the input alphabet
LowerLexeme(x) ==
    CASE x = "I" -> "i"
      [] x = "New" -> "new"
      [] OTHER -> x
Lower(t) == [i \in 1..Len(t) |-> LowerLexeme(t[i])]

RECURSIVE FindAllWords(_, _)
\* re.findall(r'\b\w+\b', t): the maximal runs of word characters
FindAllWords(t, cur) ==
    LET flush == IF cur = "" THEN <<>> ELSE <<cur>>
    IN  IF t = <<>> THEN flush
        ELSE IF IsWordLexeme(Head(t)) THEN FindAllWords(Tail(t), cur \o Head(t))
        ELSE flush \o FindAllWords(Tail(t), "")

RECURSIVE LongerThan(_, _)
\* [word for word in ws if len(word) > n]
LongerThan(ws, n) ==
    IF ws = <<>> THEN <<>>
    ELSE (IF Len(Head(ws)) > n THEN <<Head(ws)>> ELSE <<>>) \o LongerThan(Tail(ws), n)

RECURSIVE DropDelims(_, _)
DropDelims(t, D) ==
    IF t # <<>> /\ Head(t) \in D THEN DropDelims(Tail(t), D) ELSE t

RECURSIVE SplitRuns(_, _, _)
\* re.split(r'[D]+', t): the pieces between maximal runs of delimiters,
\* the empty leading and trailing pieces included
SplitRuns(t, D, cur) ==
    IF t = <<>> THEN <<cur>>
    ELSE IF Head(t) \in D THEN <<cur>> \o SplitRuns(DropDelims(Tail(t), D), D, <<>>)
    ELSE SplitRuns(Tail(t), D, Append(cur, Head(t)))

RECURSIVE SplitEach(_, _, _)
\* re.split(r'[D]', t): one piece boundary per delimiter character
SplitEach(t, D, cur) ==
    IF t = <<>> THEN <<cur>>
    ELSE IF Head(t) \in D THEN <<cur>> \o SplitEach(Tail(t), D, <<>>)
    ELSE SplitEach(Tail(t), D, Append(cur, Head(t)))

\* bool(s.strip()): the piece has a character that is not whitespace
NonBlank(s) == \E i \in 1..Len(s) : s[i] \notin Whitespace

\* len(s.split()): the number of maximal runs of non-whitespace characters
SplitLen(s) ==
    Cardinality({i \in 1..Len(s) :
        s[i] \notin Whitespace /\ (i = 1 \/ s[i - 1] \in Whitespace)})

\* t.count(c) for a one-character c
CountChar(t, c) == Cardinality({i \in 1..Len(t) : t[i] = c})

RECURSIVE CountTriple(_, _)
\* t.count(c + c + c): non-overlapping occurrences, left to right
CountTriple(t, c) ==
    IF Len(t) < 3 THEN 0
    ELSE IF t[1] = c /\ t[2] = c /\ t[3] = c THEN 1 + CountTriple(SubSeq(t, 4, Len(t)), c)
    ELSE CountTriple(Tail(t), c)

\* len(t): the number of characters
CharLen(t) == SumSeq([i \in 1..Len(t) |-> Len(t[i])])

Max2(a, b) == IF a >= b THEN a ELSE b

\* all sequences over S of length at most n
SeqsUpTo(S, n) == UNION {[1..k -> S] : k \in 0..n}

(***************************************************************************)
(* BigFiveAnalyzer (big_five_analyzer.py).                                 *)
(***************************************************************************)
Traits == {"openness", "conscientiousness", "extraversion", "agreeableness", "neuroticism"}

OpennessHigh ==
    {"creative", "imagine", "artistic", "innovative", "original",
     "abstract", "theoretical", "philosophical", "metaphor",
     "possibility", "potential", "explore", "discover", "wonder",
     "curious", "fascinating", "intriguing", "complex", "analyze",
     "understand", "learn", "study", "research", "adventure", "travel",
     "culture", "different", "unique", "experiment", "try",
     "experience", "new", "novel"}

OpennessLow ==
    {"traditional", "conventional", "normal", "standard", "typical",
     "practical", "realistic", "concrete", "simple", "basic", "always",
     "never", "same", "routine", "habit", "usual", "predictable",
     "stable", "consistent", "reliable"}

ConscientiousnessHigh ==
    {"organize", "plan", "schedule", "prepare", "arrange", "systematic",
     "methodical", "structured", "ordered", "goal", "achieve",
     "accomplish", "complete", "finish", "success", "work", "effort",
     "discipline", "focus", "responsible", "duty", "obligation",
     "commitment", "promise", "reliable", "dependable", "punctual",
     "thorough"}

ConscientiousnessLow ==
    {"messy", "chaotic", "disorganized", "scattered", "random",
     "spontaneous", "impulsive", "careless", "lazy", "later",
     "tomorrow", "eventually", "postpone", "delay", "forget", "ignore",
     "skip", "avoid", "procrastinate"}

ExtraversionHigh ==
    {"people", "friends", "party", "social", "group", "team",
     "together", "meet", "talk", "chat", "conversation", "excited",
     "energetic", "enthusiastic", "confident", "bold", "outgoing",
     "talkative", "loud", "active", "lively", "lead", "direct",
     "manage", "control", "influence", "persuade"}

ExtraversionLow ==
    {"quiet", "alone", "solitude", "private", "reserved", "shy",
     "introverted", "withdrawn", "isolated", "independent", "few",
     "small", "intimate", "close", "personal", "individual", "think",
     "reflect", "consider", "ponder", "contemplate"}

AgreeablenessHigh ==
    {"help", "support", "care", "kind", "compassionate", "empathy",
     "understanding", "sympathetic", "considerate", "thoughtful",
     "trust", "believe", "faith", "harmony", "peace", "cooperation",
     "agree", "compromise", "collaborate", "share", "give", "love",
     "like", "appreciate", "respect", "admire", "value"}

AgreeablenessLow ==
    {"compete", "win", "beat", "defeat", "superior", "better",
     "skeptical", "doubt", "suspicious", "distrust", "question",
     "myself", "my", "me", "I", "selfish", "independent", "wrong",
     "stupid", "annoying", "irritating", "hate", "dislike"}

NeuroticismHigh ==
    {"anxious", "worried", "nervous", "stress", "tension", "fear",
     "panic", "overwhelmed", "pressure", "burden", "struggle", "sad",
     "depressed", "upset", "angry", "frustrated", "irritated",
     "disappointed", "hurt", "pain", "suffering", "miserable",
     "emotional", "sensitive", "moody", "unstable", "volatile",
     "dramatic", "intense", "extreme", "overreact"}

NeuroticismLow ==
    {"calm", "relaxed", "peaceful", "stable", "steady", "balanced",
     "composed", "controlled", "even", "consistent", "secure", "happy",
     "content", "satisfied", "pleased", "comfortable", "confident",
     "optimistic", "positive", "cheerful", "joyful", "cope", "handle",
     "manage", "deal", "overcome", "resilient"}

\* self.trait_indicators, as built by _load_trait_indicators
trait_indicators ==
    [openness |-> [high |-> OpennessHigh, low |-> OpennessLow],
     conscientiousness |-> [high |-> ConscientiousnessHigh, low |-> ConscientiousnessLow],
     extraversion |-> [high |-> ExtraversionHigh, low |-> ExtraversionLow],
     agreeableness |-> [high |-> AgreeablenessHigh, low |-> AgreeablenessLow],
     neuroticism |-> [high |-> NeuroticismHigh, low |-> NeuroticismLow]]

\* BigFiveAnalyzer._tokenize: words longer than 2 characters
Analyzer_tokenize(t) == LongerThan(FindAllWords(t, ""), 2)

AnalyzerFirstPerson == {"i", "me", "my", "myself", "mine"}
AnalyzerPositiveWords ==
    {"good", "great", "awesome", "amazing", "wonderful", "excellent",
     "fantastic", "love", "like", "enjoy", "happy", "pleased"}
AnalyzerNegativeWords ==
    {"bad", "terrible", "awful", "horrible", "hate", "dislike", "angry",
     "sad", "upset", "frustrated", "annoyed"}

\* sum(len(s.split()) for s in sentences if s.strip())
RECURSIVE SentenceWordSum(_)
SentenceWordSum(ss) ==
    IF ss = <<>> THEN 0
    ELSE (IF NonBlank(Head(ss)) THEN SplitLen(Head(ss)) ELSE 0) + SentenceWordSum(Tail(ss))

\* mutant of Clamp1: the min(1.0, ...) is dropped
Clamp1_Unclamped(x) == x

\* min(1.0, x): the clamp used by every linguistic feature
Clamp1(x) == RMin(One, x)

linguistic_complexity(t) ==
    LET sentences == SplitRuns(t, SentenceEnd, <<>>)
        avg_sentence_length == R(SentenceWordSum(sentences), Max2(Len(sentences), 1))
    IN  Clamp1(RDiv(avg_sentence_length, RInt(20)))

curiosity_indicators(t) ==
    LET sentences == SplitRuns(t, SentenceEnd, <<>>)
    IN  Clamp1(R(CountChar(t, "?"), Max2(Len(sentences), 1)))

enthusiasm_indicators(t) ==
    LET sentences == SplitRuns(t, SentenceEnd, <<>>)
    IN  Clamp1(R(CountChar(t, "!"), Max2(Len(sentences), 1)))

self_focus(words) ==
    Clamp1(RMul(R(CountIn(words, AnalyzerFirstPerson), Max2(Len(words), 1)), RInt(10)))

sentiment_ratio(words) ==
    LET positive_count == CountIn(words, AnalyzerPositiveWords)
        negative_count == CountIn(words, AnalyzerNegativeWords)
    IN  IF positive_count + negative_count > 0
        THEN R(positive_count, positive_count + negative_count)
        ELSE Half

\* BigFiveAnalyzer._analyze_linguistic_features
_analyze_linguistic_features(t, words) ==
    [linguistic_complexity |-> linguistic_complexity(t),
     curiosity_indicators |-> curiosity_indicators(t),
     enthusiasm_indicators |-> enthusiasm_indicators(t),
     self_focus |-> self_focus(words),
     sentiment_ratio |-> sentiment_ratio(words)]

\* BigFiveAnalyzer._default_scores
_default_scores ==
    [openness |-> Half, conscientiousness |-> Half, extraversion |-> Half,
     agreeableness |-> Half, neuroticism |-> Half,
     linguistic_complexity |-> Half, curiosity_indicators |-> Half,
     enthusiasm_indicators |-> Half, self_focus |-> Half, sentiment_ratio |-> Half]

high_matches(words, trait) == CountIn(words, trait_indicators[trait].high)
low_matches(words, trait) == CountIn(words, trait_indicators[trait].low)

\* mutant of TraitScore: the high count is normalised by the message length
TraitScore_PerWord(words, trait) ==
    LET h == high_matches(words, trait)
        l == low_matches(words, trait)
    IN  IF h + l = 0 THEN Half ELSE R(h, Len(words))

\* the body of the loop over the traits in analyze_text
TraitScore(words, trait) ==
    LET h == high_matches(words, trait)
        l == low_matches(words, trait)
    IN  IF h + l = 0 THEN Half ELSE R(h, h + l)

\* dict.update: the keys of b override those of a
DictUpdate(a, b) ==
    [k \in DOMAIN a \cup DOMAIN b |-> IF k \in DOMAIN b THEN b[k] ELSE a[k]]

\* the scores analyze_text returns for a non-empty token list
ScoredText(t, words) ==
    DictUpdate([trait \in Traits |-> TraitScore(words, trait)],
               _analyze_linguistic_features(t, words))

\* mutant of analyze_text: the word_count == 0 early return is missing
analyze_text_NoGuard(t) == ScoredText(t, Analyzer_tokenize(Lower(t)))

\* BigFiveAnalyzer.analyze_text
analyze_text(t) ==
    LET words == Analyzer_tokenize(Lower(t))
        word_count == Len(words)
    IN  IF word_count = 0 THEN _default_scores ELSE ScoredText(t, words)

ScoreKeys == DOMAIN _default_scores

\* mutant of ComplementaryTrait: openness falls through to the generic rule
ComplementaryTrait_NoOpenness(trait, user_score) ==
    IF trait = "agreeableness" THEN RMax(R(7, 10), user_score)
    ELSE IF trait = "neuroticism"
    THEN RMax(R(2, 10), RSub(One, RMul(user_score, R(8, 10))))
    ELSE IF RLt(R(6, 10), user_score) THEN RSub(user_score, R(2, 10))
         ELSE IF RLt(user_score, R(4, 10)) THEN RAdd(user_score, R(2, 10))
         ELSE user_score

\* one trait of the rule table in get_complementary_traits
ComplementaryTrait(trait, user_score) ==
    IF trait = "agreeableness" THEN RMax(R(7, 10), user_score)
    ELSE IF trait = "neuroticism"
    THEN RMax(R(2, 10), RSub(One, RMul(user_score, R(8, 10))))
    ELSE IF trait = "openness"
    THEN IF RLt(R(7, 10), user_score) THEN R(6, 10)
         ELSE IF RLt(user_score, R(3, 10)) THEN R(8, 10)
         ELSE R(7, 10)
    ELSE IF RLt(R(6, 10), user_score) THEN RSub(user_score, R(2, 10))
         ELSE IF RLt(user_score, R(4, 10)) THEN RAdd(user_score, R(2, 10))
         ELSE user_score

\* BigFiveAnalyzer.get_complementary_traits
get_complementary_traits(us) ==
    [trait \in {k \in DOMAIN us : k \in DOMAIN trait_indicators} |->
        ComplementaryTrait(trait, us[trait])]

(***************************************************************************)
(* StyleLearner (style_learner.py).                                        *)
(*                                                                         *)
(* Substring tests (phrase in message, word in question, startswith) are   *)
(* made on lexemes: a phrase occurs where its lexemes occur one after the  *)
(* other.  This is what the str operations give as long as no lexeme of a  *)
(* message contains a tested string as a proper part, which holds for the  *)
(* messages of this model.  No lexeme stands for the emoji strings.        *)
(***************************************************************************)
\* StyleLearner._tokenize: words longer than 1 character
Learner_tokenize(t) == LongerThan(FindAllWords(t, ""), 1)

RECURSIVE KeepNonBlank(_)
KeepNonBlank(ss) ==
    IF ss = <<>> THEN <<>>
    ELSE (IF NonBlank(Head(ss)) THEN <<Head(ss)>> ELSE <<>>) \o KeepNonBlank(Tail(ss))

\* StyleLearner._split_sentences
_split_sentences(t) == KeepNonBlank(SplitRuns(t, SentenceEnd, <<>>))

SophisticatedWords ==
    {"analyze", "synthesize", "conceptualize", "methodology", "paradigm",
     "hypothesis", "empirical", "theoretical", "philosophical", "psychological",
     "furthermore", "consequently", "nevertheless", "moreover", "therefore"}

\* min(1.0, max(0.0, x))
Clamp01(x) == RMin(One, RMax(Zero, x))

\* StyleLearner._analyze_vocabulary_complexity
_analyze_vocabulary_complexity(words) ==
    IF words = <<>> THEN Half
    ELSE LET n == Len(words)
             avg_word_length == R(SumSeq([i \in 1..n |-> Len(words[i])]), n)
             complex_ratio == R(Len(LongerThan(words, 6)), n)
             sophisticated_ratio == R(CountIn(words, SophisticatedWords), n)
             complexity_score ==
                 RAdd(RAdd(RMul(RDiv(RSub(avg_word_length, RInt(3)), RInt(7)), R(4, 10)),
                           RMul(complex_ratio, R(4, 10))),
                      RMul(RMul(sophisticated_ratio, RInt(10)), R(2, 10)))
         IN  Clamp01(complexity_score)

ExcitementWords == {"amazing", "awesome", "incredible", "fantastic", "wow", "omg"}
EnthusiasmWords == {"love", "excited", "can't wait", "looking forward", "thrilled"}
ConcernWords == {"worried", "concerned", "anxious", "nervous", "unsure", "confused"}
AffectionWords == {"love", "care", "appreciate", "grateful", "thankful", "sweet"}
FrustrationWords == {"frustrated", "annoying", "irritating", "ugh", "seriously", "ridiculous"}

\* sum(1 for word in words if word in S) / max(len(words), 1)
HitRate(words, S) == R(CountIn(words, S), Max2(Len(words), 1))

\* StyleLearner._detect_emotional_expression
_detect_emotional_expression(msg, words) ==
    LET excitement_punctuation == CountChar(msg, "!") + CountTriple(msg, "!")
    IN  [excitement |->
            RAdd(HitRate(words, ExcitementWords),
                 RMul(R(excitement_punctuation, Max2(CharLen(msg), 1)), RInt(10))),
         enthusiasm |-> HitRate(words, EnthusiasmWords),
         concern |-> HitRate(words, ConcernWords),
         affection |-> HitRate(words, AffectionWords),
         frustration |-> HitRate(words, FrustrationWords)]

RECURSIVE CountPair(_, _)
\* t.count(c + c): non-overlapping occurrences, left to right
CountPair(t, c) ==
    IF Len(t) < 2 THEN 0
    ELSE IF t[1] = c /\ t[2] = c THEN 1 + CountPair(SubSeq(t, 3, Len(t)), c)
    ELSE CountPair(Tail(t), c)

\* StyleLearner._analyze_punctuation (no lexeme stands for the second dash string)
_analyze_punctuation(msg) ==
    [exclamation_marks |-> CountChar(msg, "!"),
     question_marks |-> CountChar(msg, "?"),
     ellipses |-> CountTriple(msg, "."),
     dashes |-> CountPair(msg, "-"),
     parentheses |-> CountChar(msg, "("),
     quotation_marks |-> CountChar(msg, "\"") + CountChar(msg, "'")]

FormalIndicators ==
    {"please", "thank you", "would", "could", "should", "might", "perhaps",
     "possibly", "certainly", "indeed", "furthermore", "however", "therefore",
     "consequently"}
InformalIndicators ==
    {"gonna", "wanna", "gotta", "yeah", "yep", "nope", "ok", "okay", "cool",
     "awesome", "dude", "guys", "stuff", "things", "kinda", "sorta", "pretty",
     "really", "super", "totally"}
Contractions ==
    {"don't", "can't", "won't", "isn't", "aren't", "wasn't", "weren't",
     "haven't", "hasn't", "hadn't"}

\* str.isupper on the first character of a lexeme
StartsUpper(x) == x \in {"I", "New"}

\* StyleLearner._analyze_formality
_analyze_formality(words, msg) ==
    LET proper_capitalization == IF msg # <<>> THEN StartsUpper(msg[1]) ELSE FALSE
    IN  [formal_words |-> HitRate(words, FormalIndicators),
         informal_words |-> HitRate(words, InformalIndicators),
         contractions |-> HitRate(words, Contractions),
         proper_capitalization |-> IF proper_capitalization THEN One ELSE Zero]

RECURSIVE KeepWith(_, _)
\* [s for s in ss if c in s]
KeepWith(ss, c) ==
    IF ss = <<>> THEN <<>>
    ELSE (IF \E i \in 1..Len(Head(ss)) : Head(ss)[i] = c THEN <<Head(ss)>> ELSE <<>>)
         \o KeepWith(Tail(ss), c)

\* s.strip(): leading and trailing whitespace removed
Strip(s) ==
    LET RECURSIVE StripRight(_)
        StripRight(t) ==
            IF t # <<>> /\ t[Len(t)] \in Whitespace
            THEN StripRight(SubSeq(t, 1, Len(t) - 1)) ELSE t
    IN  StripRight(DropDelims(s, Whitespace))

\* phrase in t: the lexemes of the phrase occur one after the other
HasPhrase(t, phrase) ==
    \E i \in 1..Len(t) :
        /\ i + Len(phrase) - 1 <= Len(t)
        /\ SubSeq(t, i, i + Len(phrase) - 1) = phrase

\* question_types: how many questions the loop of _analyze_questions gives
\* each type
question_types(questions) ==
    LET YesNoStarters ==
            {"do", "does", "did", "is", "are", "was", "were", "can", "could", "will",
             "would", "should"}
        OpenEndedWords == {"what", "how", "why", "when", "where", "who"}
        RhetoricalPhrases ==
            {<<"right", "?">>, <<"you", " ", "know", "?">>,
             <<"don", "'", "t", " ", "you", " ", "think", "?">>}
        QuestionType(question) ==
            LET question_lower == Lower(question)
            IN  IF question_lower # <<>> /\ question_lower[1] \in YesNoStarters
                THEN "yes_no"
                ELSE IF \E i \in 1..Len(question_lower) : question_lower[i] \in OpenEndedWords
                THEN "open_ended"
                ELSE IF \E ph \in RhetoricalPhrases : HasPhrase(question_lower, ph)
                THEN "rhetorical"
                ELSE "none"
    IN  [ty \in {"yes_no", "open_ended", "rhetorical"} |->
            Cardinality({i \in 1..Len(questions) : QuestionType(Strip(questions[i])) = ty})]

\* StyleLearner._analyze_questions
_analyze_questions(msg) ==
    LET questions == KeepWith(SplitEach(msg, {".", "!"}, <<>>), "?")
    IN  [total_questions |-> Len(questions),
         question_types |-> question_types(questions),
         question_ratio |->
            R(Len(questions), Max2(Len(SplitEach(msg, {".", "!", "?"}, <<>>)), 1))]

topic_categories ==
    <<[topic |-> "technology",
       keywords |-> {"computer", "software", "app", "tech", "digital", "online",
                     "internet", "ai", "programming"}],
      [topic |-> "work",
       keywords |-> {"job", "work", "career", "office", "business", "meeting",
                     "project", "deadline"}],
      [topic |-> "relationships",
       keywords |-> {"friend", "family", "relationship", "dating", "marriage",
                     "love", "partner"}],
      [topic |-> "hobbies",
       keywords |-> {"music", "movie", "book", "game", "sport", "art", "cooking",
                     "travel"}],
      [topic |-> "health",
       keywords |-> {"health", "exercise", "diet", "sleep", "stress", "mental",
                     "physical"}],
      [topic |-> "education",
       keywords |-> {"school", "college", "university", "study", "learn", "class",
                     "degree"}]>>

RECURSIVE DetectTopics(_, _)
DetectTopics(cats, words) ==
    IF cats = <<>> THEN <<>>
    ELSE (IF \E i \in 1..Len(words) : words[i] \in Head(cats).keywords
          THEN <<Head(cats).topic>> ELSE <<>>) \o DetectTopics(Tail(cats), words)

\* StyleLearner._extract_topics
_extract_topics(words) == DetectTopics(topic_categories, words)

\* StyleLearner._count_personal_references
_count_personal_references(words) ==
    [first_person |-> CountIn(words, {"i", "me", "my", "myself", "mine"}),
     second_person |-> CountIn(words, {"you", "your", "yours", "yourself"}),
     third_person |-> CountIn(words, {"he", "she", "they", "them", "his", "her", "their"})]

\* sum(len(s.split()) for s in sentences) / max(len(sentences), 1)
avg_sentence_length(sentences) ==
    R(SumSeq([i \in 1..Len(sentences) |-> SplitLen(sentences[i])]),
      Max2(Len(sentences), 1))

\* a value known by its square: the non-negative square root of w
Root(w) == [root_of |-> w]

\* mutant of _analyze_sentence_variety: 0.0 where there is nothing to compare
_analyze_sentence_variety_ZeroDefault(sentences) ==
    LET n == Len(sentences)
        lengths == [i \in 1..n |-> SplitLen(sentences[i])]
    IN  IF n < 2 \/ SumSeq(lengths) = 0 THEN Root(Zero)
        ELSE LET mean_length == R(SumSeq(lengths), n)
                 Sq(x) == RMul(x, x)
                 Dev(i) == Sq(RSub(RInt(lengths[i]), mean_length))
                 RECURSIVE SumDev(_)
                 SumDev(i) == IF i = 0 THEN Zero ELSE RAdd(SumDev(i - 1), Dev(i))
                 variance == RDiv(SumDev(n), RInt(n))
             IN  Root(RMin(One, RDiv(variance, Sq(mean_length))))

\* StyleLearner._analyze_sentence_variety: min(1.0, std_dev / mean_length),
\* the root of min(1, variance / mean_length ** 2)
_analyze_sentence_variety(sentences) ==
    LET n == Len(sentences)
        lengths == [i \in 1..n |-> SplitLen(sentences[i])]
    IN  IF n < 2 \/ SumSeq(lengths) = 0 THEN Root(R(1, 4))
        ELSE LET mean_length == R(SumSeq(lengths), n)
                 Sq(x) == RMul(x, x)
                 Dev(i) == Sq(RSub(RInt(lengths[i]), mean_length))
                 RECURSIVE SumDev(_)
                 SumDev(i) == IF i = 0 THEN Zero ELSE RAdd(SumDev(i - 1), Dev(i))
                 variance == RDiv(SumDev(n), RInt(n))
             IN  Root(RMin(One, RDiv(variance, Sq(mean_length))))

\* words[max(0, i - before):i + after + 1] around the word at index i
Context(words, i, before, after) ==
    {words[j] : j \in Max2(1, i - before)..(IF i + after <= Len(words) THEN i + after ELSE Len(words))}

\* StyleLearner._detect_humor_style
_detect_humor_style(msg, words) ==
    LET sarcasm_words == {"obviously", "clearly", "sure", "right", "totally", "absolutely"}
        sarcasm_phrases ==
            {<<"oh", " ", "great">>, <<"just", " ", "perfect">>,
             <<"how", " ", "wonderful">>, <<"that", "'", "s", " ", "just">>}
        self_deprecating_words == {"stupid", "dumb", "idiot", "fail", "mess", "disaster"}
        lower == Lower(msg)
        phrases == Cardinality({ph \in sarcasm_phrases : HasPhrase(lower, ph)})
        hits == Cardinality({i \in 1..Len(words) :
                    /\ words[i] \in self_deprecating_words
                    /\ Context(words, i, 3, 3) \cap {"i", "me", "my", "myself"} # {}})
    IN  [sarcastic |-> RAdd(HitRate(words, sarcasm_words), R(phrases, 10)),
         self_deprecating |-> R(hits, 10),
         wordplay |-> IF \E i \in 1..Len(lower) : lower[i] \in {"lol", "haha"}
                      THEN R(1, 10) ELSE Zero,
         observational |-> Zero,
         wholesome |-> Zero]

\* StyleLearner._detect_sarcasm
_detect_sarcasm(msg, words) ==
    LET sarcasm_indicators ==
            {"obviously", "clearly", "sure", "right", "totally", "absolutely",
             "perfect", "wonderful", "great", "fantastic", "amazing"}
        negative_context == {"not", "never", "can't", "won't", "don't", "isn't", "aren't"}
        positive_words == {"great", "perfect", "wonderful", "amazing", "fantastic"}
        negated == Cardinality({i \in 1..Len(words) :
                       /\ words[i] \in positive_words
                       /\ Context(words, i, 2, 2) \cap negative_context # {}})
        punctuation == IF CountChar(msg, "!") > 2 \/ CountTriple(msg, ".") > 0
                       THEN R(1, 10) ELSE Zero
    IN  RMin(One, RAdd(RAdd(HitRate(words, sarcasm_indicators), R(2 * negated, 10)),
                       punctuation))

\* the analysis dict built by analyze_message
Analysis(msg) ==
    LET words == Learner_tokenize(Lower(msg))
        sentences == _split_sentences(msg)
    IN  [vocabulary_complexity |-> _analyze_vocabulary_complexity(words),
         unique_word_ratio |->
            R(Cardinality({words[i] : i \in 1..Len(words)}), Max2(Len(words), 1)),
         avg_sentence_length |-> avg_sentence_length(sentences),
         sentence_variety |-> _analyze_sentence_variety(sentences),
         emotional_indicators |-> _detect_emotional_expression(msg, words),
         punctuation_style |-> _analyze_punctuation(msg),
         humor_indicators |-> _detect_humor_style(msg, words),
         sarcasm_likelihood |-> _detect_sarcasm(msg, words),
         formality_indicators |-> _analyze_formality(words, msg),
         question_patterns |-> _analyze_questions(msg),
         topics_mentioned |-> _extract_topics(words),
         personal_references |-> _count_personal_references(words)]

\* alpha = 0.1, the learning rate of _update_patterns
alpha == R(1, 10)

\* mutant of Smooth: the two weights are swapped
Smooth_Swapped(old, observed) == RAdd(RMul(alpha, old), RMul(RSub(One, alpha), observed))

\* (1 - alpha) * old + alpha * observed
Smooth(old, observed) == RAdd(RMul(RSub(One, alpha), old), RMul(alpha, observed))

\* min(1.0, analysis["avg_sentence_length"] / 20.0)
normalized_length(a) == RMin(One, RDiv(a.avg_sentence_length, RInt(20)))

\* sum(analysis["emotional_indicators"].values())
total_emotion(a) ==
    LET e == a.emotional_indicators
    IN  RAdd(RAdd(RAdd(RAdd(e.excitement, e.enthusiasm), e.concern), e.affection),
             e.frustration)

\* mutant of observed_emotion: the min(1.0, ...) is dropped
observed_emotion_Unclamped(a) == total_emotion(a)

\* min(1.0, total_emotion)
observed_emotion(a) == RMin(One, total_emotion(a))

\* mutant of UpdateFormality: a zero denominator counts as a ratio of 0
UpdateFormality_Always(old, a) ==
    LET formal_score == a.formality_indicators.formal_words
        informal_score == a.formality_indicators.informal_words
    IN  IF RLt(Zero, RAdd(formal_score, informal_score))
        THEN Smooth(old, RDiv(formal_score, RAdd(formal_score, informal_score)))
        ELSE Smooth(old, Zero)

\* the formality update of _update_patterns
UpdateFormality(old, a) ==
    LET formal_score == a.formality_indicators.formal_words
        informal_score == a.formality_indicators.informal_words
    IN  IF RLt(Zero, RAdd(formal_score, informal_score))
        THEN Smooth(old, RDiv(formal_score, RAdd(formal_score, informal_score)))
        ELSE old

RECURSIVE AppendNew_NoCheck(_, _)
\* mutant of AppendNew: every topic is appended, present or not
AppendNew_NoCheck(interests, topics) ==
    IF topics = <<>> THEN interests
    ELSE AppendNew_NoCheck(Append(interests, Head(topics)), Tail(topics))

RECURSIVE AppendNew(_, _)
\* for topic in topics: if topic not in interests: interests.append(topic)
AppendNew(interests, topics) ==
    IF topics = <<>> THEN interests
    ELSE AppendNew(IF \E i \in 1..Len(interests) : interests[i] = Head(topics)
                   THEN interests ELSE Append(interests, Head(topics)),
                   Tail(topics))

\* StyleLearner._update_patterns
_update_patterns(up, a) ==
    [up EXCEPT
        !.vocabulary_level = Smooth(@, a.vocabulary_complexity),
        !.sentence_length_preference = Smooth(@, normalized_length(a)),
        !.emotional_expressiveness = Smooth(@, observed_emotion(a)),
        !.formality_level = UpdateFormality(@, a),
        !.question_frequency = Smooth(@, a.question_patterns.question_ratio)]

\* StyleLearner._update_patterns, the list objects after it: topic_interests
\* is appended to in place
_update_patterns_lists(up, a, h) ==
    [h EXCEPT ![up.topic_interests] = AppendNew(@, a.topics_mentioned)]

\* the entry analyze_message appends to message_history
HistoryEntry(msg, a, history) ==
    [message |-> msg, analysis |-> a, timestamp |-> Len(history)]

\* mutant of _analyze_recent_trends: the mean is taken over the whole history
_analyze_recent_trends_All ==
    IF Len(message_history) < 5 THEN [trend |-> "insufficient_data"]
    ELSE LET recent_messages == message_history
             RECURSIVE SumFormal(_)
             SumFormal(i) ==
                 IF i = 0 THEN Zero
                 ELSE RAdd(SumFormal(i - 1),
                           recent_messages[i].analysis.formality_indicators.formal_words)
             recent_formality == RDiv(SumFormal(Len(recent_messages)),
                                      RInt(Len(recent_messages)))
             overall_formality == user_patterns.formality_level
         IN  [formality |->
                 IF RLt(RAdd(overall_formality, R(1, 10)), recent_formality)
                 THEN "increasing"
                 ELSE IF RLt(recent_formality, RSub(overall_formality, R(1, 10)))
                 THEN "decreasing"
                 ELSE "stable"]

\* StyleLearner._analyze_recent_trends
_analyze_recent_trends ==
    IF Len(message_history) < 5 THEN [trend |-> "insufficient_data"]
    ELSE LET recent_messages ==
                 SubSeq(message_history, Len(message_history) - 4, Len(message_history))
             RECURSIVE SumFormal(_)
             SumFormal(i) ==
                 IF i = 0 THEN Zero
                 ELSE RAdd(SumFormal(i - 1),
                           recent_messages[i].analysis.formality_indicators.formal_words)
             recent_formality == RDiv(SumFormal(Len(recent_messages)),
                                      RInt(Len(recent_messages)))
             overall_formality == user_patterns.formality_level
         IN  [formality |->
                 IF RLt(RAdd(overall_formality, R(1, 10)), recent_formality)
                 THEN "increasing"
                 ELSE IF RLt(recent_formality, RSub(overall_formality, R(1, 10)))
                 THEN "decreasing"
                 ELSE "stable"]

\* mutant of get_communication_summary: the confidence is not capped at 1.0
get_communication_summary_NoCap ==
    [patterns |-> user_patterns,
     messages_analyzed |-> Len(message_history),
     confidence |-> R(Len(message_history), 20),
     recent_trends |-> _analyze_recent_trends]

\* StyleLearner.get_communication_summary.  user_patterns.copy() copies the
\* entries of the dict: the numbers and strings, and the references to the
\* two list objects.
get_communication_summary ==
    [patterns |-> user_patterns,
     messages_analyzed |-> Len(message_history),
     confidence |-> RMin(One, R(Len(message_history), 20)),
     recent_trends |-> _analyze_recent_trends]

RECURSIVE Replace(_, _, _)
\* t.replace(old, new) on a text given character by character: the
\* occurrences of old from the left, not overlapping
Replace(t, old, new) ==
    IF Len(t) < Len(old) THEN t
    ELSE IF SubSeq(t, 1, Len(old)) = old
    THEN new \o Replace(SubSeq(t, Len(old) + 1, Len(t)), old, new)
    ELSE <<Head(t)>> \o Replace(Tail(t), old, new)

\* t.endswith(c) for a character c
EndsWith(t, c) == t # <<>> /\ t[Len(t)] = c

\* mutant of adapt_response_style: the "!" is appended without looking at
\* the end of the text
adapt_response_style_NoEndCheck(response) ==
    LET formality ==
            IF RLt(user_patterns.formality_level, R(3, 10))
            THEN Replace(Replace(Replace(response,
                     <<"I", " ", "w", "o", "u", "l", "d">>, <<"I", "'", "d">>),
                     <<"c", "a", "n", "n", "o", "t">>, <<"c", "a", "n", "'", "t">>),
                     <<"d", "o", " ", "n", "o", "t">>, <<"d", "o", "n", "'", "t">>)
            ELSE response
        enthusiasm ==
            IF RLt(R(7, 10), user_patterns.emotional_expressiveness)
            THEN Append(formality, "!")
            ELSE formality
    IN  IF RLt(user_patterns.vocabulary_level, R(3, 10))
        THEN Replace(Replace(Replace(Replace(Replace(enthusiasm,
                 <<"u", "t", "i", "l", "i", "z", "e">>, <<"u", "s", "e">>),
                 <<"f", "a", "c", "i", "l", "i", "t", "a", "t", "e">>, <<"h", "e", "l", "p">>),
                 <<"d", "e", "m", "o", "n", "s", "t", "r", "a", "t", "e">>, <<"s", "h", "o", "w">>),
                 <<"a", "p", "p", "r", "o", "x", "i", "m", "a", "t", "e", "l", "y">>, <<"a", "b", "o", "u", "t">>),
                 <<"s", "u", "b", "s", "e", "q", "u", "e", "n", "t", "l", "y">>, <<"t", "h", "e", "n">>)
        ELSE enthusiasm

\* StyleLearner.adapt_response_style, on a text given character by character
adapt_response_style(response) ==
    LET formality ==
            IF RLt(user_patterns.formality_level, R(3, 10))
            THEN Replace(Replace(Replace(response,
                     <<"I", " ", "w", "o", "u", "l", "d">>, <<"I", "'", "d">>),
                     <<"c", "a", "n", "n", "o", "t">>, <<"c", "a", "n", "'", "t">>),
                     <<"d", "o", " ", "n", "o", "t">>, <<"d", "o", "n", "'", "t">>)
            ELSE response
        enthusiasm ==
            IF /\ RLt(R(7, 10), user_patterns.emotional_expressiveness)
               /\ ~EndsWith(formality, "!")
            THEN Append(formality, "!")
            ELSE formality
    IN  IF RLt(user_patterns.vocabulary_level, R(3, 10))
        THEN Replace(Replace(Replace(Replace(Replace(enthusiasm,
                 <<"u", "t", "i", "l", "i", "z", "e">>, <<"u", "s", "e">>),
                 <<"f", "a", "c", "i", "l", "i", "t", "a", "t", "e">>, <<"h", "e", "l", "p">>),
                 <<"d", "e", "m", "o", "n", "s", "t", "r", "a", "t", "e">>, <<"s", "h", "o", "w">>),
                 <<"a", "p", "p", "r", "o", "x", "i", "m", "a", "t", "e", "l", "y">>, <<"a", "b", "o", "u", "t">>),
                 <<"s", "u", "b", "s", "e", "q", "u", "e", "n", "t", "l", "y">>, <<"t", "h", "e", "n">>)
        ELSE enthusiasm

(***************************************************************************)
(* RenCore (ren_core.py).  The sqlite writes of _update_user_insights and  *)
(* _store_conversation change no state of the objects and are left out.    *)
(***************************************************************************)
\* mutant of _evolve_personality: the trust increment has no cap at 1.0
_evolve_personality_NoCap(p, personality_indicators) ==
    LET q == [p EXCEPT !.trust_level = RAdd(p.trust_level, R(1, 100))]
    IN  IF "openness" \in DOMAIN personality_indicators
        THEN [q EXCEPT !.openness =
                 RSub(R(7, 10), RMul(personality_indicators.openness, R(2, 10)))]
        ELSE q

\* mutant of _evolve_personality: openness follows the rule table of
\* get_complementary_traits
_evolve_personality_Merged(p, personality_indicators) ==
    LET q == [p EXCEPT !.trust_level = RMin(One, RAdd(p.trust_level, R(1, 100)))]
    IN  IF "openness" \in DOMAIN personality_indicators
        THEN [q EXCEPT !.openness =
                 ComplementaryTrait("openness", personality_indicators.openness)]
        ELSE q

\* mutant of _evolve_personality: extraversion complements the user's as well
_evolve_personality_Extraversion(p, personality_indicators) ==
    LET q == [p EXCEPT !.trust_level = RMin(One, RAdd(p.trust_level, R(1, 100)))]
    IN  IF "openness" \in DOMAIN personality_indicators
        THEN [q EXCEPT !.openness =
                 RSub(R(7, 10), RMul(personality_indicators.openness, R(2, 10))),
                       !.extraversion =
                 RSub(One, personality_indicators.extraversion)]
        ELSE q

\* RenCore._evolve_personality
_evolve_personality(p, personality_indicators) ==
    LET q == [p EXCEPT !.trust_level = RMin(One, RAdd(p.trust_level, R(1, 100)))]
    IN  IF "openness" \in DOMAIN personality_indicators
        THEN [q EXCEPT !.openness =
                 RSub(R(7, 10), RMul(personality_indicators.openness, R(2, 10)))]
        ELSE q

\* mutant of _get_development_stage: the last two labels are exchanged
_get_development_stage_Swapped(p) ==
    LET trust == p.trust_level
    IN  IF RLt(trust, R(2, 10))
        THEN "Getting to know you - I'm still learning your style!"
        ELSE IF RLt(trust, R(5, 10))
        THEN "Building rapport - I'm starting to understand you better"
        ELSE IF RLt(trust, R(8, 10))
        THEN "Deep connection - I feel like I really know you now"
        ELSE "Developing friendship - We're getting comfortable with each other"

\* RenCore._get_development_stage
_get_development_stage(p) ==
    LET trust == p.trust_level
    IN  IF RLt(trust, R(2, 10))
        THEN "Getting to know you - I'm still learning your style!"
        ELSE IF RLt(trust, R(5, 10))
        THEN "Building rapport - I'm starting to understand you better"
        ELSE IF RLt(trust, R(8, 10))
        THEN "Developing friendship - We're getting comfortable with each other"
        ELSE "Deep connection - I feel like I really know you now"

\* RenCore.get_personality_summary
get_personality_summary ==
    [ren_personality |-> ren_personality,
     trust_level |-> ren_personality.trust_level,
     conversations_count |-> Len(conversation_history),
     development_stage |-> _get_development_stage(ren_personality)]

\* the replies of _generate_response: the fixed cautious one, or one of the
\* four templates random.choice picks from
CautiousReply == "cautious"
TemplateReplies == {"template1", "template2", "template3", "template4"}

\* RenCore._generate_response: the replies it can return
_generate_response(p) ==
    IF RLt(p.trust_level, R(3, 10)) THEN {CautiousReply} ELSE TemplateReplies

(***************************************************************************)
(* DigitalGuardian (digital_guardian.py).  Of a finding, its type, its     *)
(* platform and its privacy_risk are kept.                                 *)
(***************************************************************************)
\* sum(1 for result in results if result["privacy_risk"] == risk)
RiskCount(results, risk) ==
    Cardinality({i \in 1..Len(results) : results[i].privacy_risk = risk})

\* mutant of _assess_privacy_risks: the medium count is looked at first
_assess_privacy_risks_MediumFirst(results) ==
    LET high_risk_count == RiskCount(results, "high")
        medium_risk_count == RiskCount(results, "medium")
    IN  [overall_risk |-> IF medium_risk_count > 1 THEN "medium"
                          ELSE IF high_risk_count > 0 THEN "high"
                          ELSE "low",
         high_risk_items |-> high_risk_count,
         medium_risk_items |-> medium_risk_count,
         total_findings |-> Len(results)]

\* DigitalGuardian._assess_privacy_risks: the dict it stores in privacy_risks
_assess_privacy_risks(results) ==
    LET high_risk_count == RiskCount(results, "high")
        medium_risk_count == RiskCount(results, "medium")
    IN  [overall_risk |-> IF high_risk_count > 0 THEN "high"
                          ELSE IF medium_risk_count > 1 THEN "medium"
                          ELSE "low",
         high_risk_items |-> high_risk_count,
         medium_risk_items |-> medium_risk_count,
         total_findings |-> Len(results)]

\* DigitalGuardian._simulate_research_process: the findings it stores
simulated_findings ==
    <<[type |-> "social_media", platform |-> "Facebook", privacy_risk |-> "medium"],
      [type |-> "professional", platform |-> "LinkedIn", privacy_risk |-> "low"],
      [type |-> "data_broker", platform |-> "WhitePages", privacy_risk |-> "high"],
      [type |-> "news_mention", platform |-> "Local News Site", privacy_risk |-> "low"],
      [type |-> "educational", platform |-> "University Website", privacy_risk |-> "low"]>>

\* an exception leaves the call in place of a return value
Raised(exception) == [raised |-> exception]

\* user_info.get(key, default)
Get(info, key, default) == IF key \in DOMAIN info THEN info[key] ELSE default

\* DigitalGuardian._generate_search_queries: the length of the list it
\* returns, or the exception of int(age)
_generate_search_queries(info) ==
    LET name == Get(info, "name", "")
        age == Get(info, "age", <<>>)
        location == Get(info, "location", "")
        social_platforms == 9
        data_broker_sites == 6
        \* int(age) accepts the string: decimal digits (sign, blanks and
        \* underscores, which int() accepts too, are not among the ages of
        \* the model)
        IntAccepts ==
            /\ age # <<>>
            /\ \A i \in 1..Len(age) :
                  age[i] \in {"0", "1", "2", "3", "4", "5", "6", "7", "8", "9"}
    IN  IF name = "" THEN [len |-> 0]
        ELSE IF age # <<>> /\ ~IntAccepts THEN Raised("ValueError")
        ELSE [len |-> 2 + (IF location # "" THEN 2 ELSE 0) + (IF age # <<>> THEN 2 ELSE 0)
                      + 2 * social_platforms + 3 + 3 + data_broker_sites]

\* DigitalGuardian._generate_recommendations: the five recommendations it
\* always starts with, then one per high-risk finding (the description
\* texts are left out)
_generate_recommendations(results) ==
    LET general ==
            <<[category |-> "general", title |-> "Review Social Media Privacy Settings",
               priority |-> "high", difficulty |-> "easy"],
              [category |-> "general", title |-> "Google Yourself Regularly",
               priority |-> "medium", difficulty |-> "easy"],
              [category |-> "data_brokers", title |-> "Opt Out of Data Broker Sites",
               priority |-> "high", difficulty |-> "medium"],
              [category |-> "passwords", title |-> "Use Strong, Unique Passwords",
               priority |-> "high", difficulty |-> "easy"],
              [category |-> "two_factor", title |-> "Enable Two-Factor Authentication",
               priority |-> "high", difficulty |-> "easy"]>>
        RECURSIVE Specific(_)
        Specific(findings) ==
            IF findings = <<>> THEN <<>>
            ELSE (IF Head(findings).privacy_risk = "high"
                  THEN <<[category |-> "specific",
                          title |-> "Address " \o Head(findings).platform \o " Privacy Risk",
                          priority |-> "high", difficulty |-> "medium"]>>
                  ELSE <<>>)
                 \o Specific(Tail(findings))
    IN  general \o Specific(results)

\* DigitalGuardian._generate_summary: the count and the sentence chosen;
\* subscripting the list privacy_risks is before the first assessment raises
\* TypeError
_generate_summary(results, risks) ==
    IF DOMAIN risks = {} THEN Raised("TypeError")
    ELSE [total_findings |-> Len(results),
          sentence |-> IF risks.overall_risk = "high" THEN "significant privacy concerns"
                       ELSE IF risks.overall_risk = "medium" THEN "a few privacy items"
                       ELSE "looks pretty good"]

\* DigitalGuardian.get_research_results, on a guardian with these fields
get_research_results(results, risks) ==
    IF "raised" \in DOMAIN _generate_summary(results, risks)
    THEN _generate_summary(results, risks)
    ELSE [findings |-> results,
          privacy_assessment |-> risks,
          recommendations |-> _generate_recommendations(results),
          summary |-> _generate_summary(results, risks)]

\* DigitalGuardian.generate_privacy_report: the parts the report is
\* formatted from, or the exception raised on the way
generate_privacy_report(results, risks, info) ==
    LET res == get_research_results(results, risks)
        upper == [low |-> "LOW", medium |-> "MEDIUM", high |-> "HIGH"]
        \* [r for r in recommendations if r['priority'] == priority], the titles
        RECURSIVE WithPriority(_, _)
        WithPriority(recommendations, priority) ==
            IF recommendations = <<>> THEN <<>>
            ELSE (IF Head(recommendations).priority = priority
                  THEN <<Head(recommendations).title>> ELSE <<>>)
                 \o WithPriority(Tail(recommendations), priority)
    IN  IF "raised" \in DOMAIN res THEN res
        ELSE IF info = NoValue THEN Raised("AttributeError")
        ELSE [name |-> Get(info, "name", "User"),
              summary |-> res.summary,
              overall_risk |-> upper[res.privacy_assessment.overall_risk],
              total_findings |-> res.privacy_assessment.total_findings,
              findings |-> [i \in 1..Len(res.findings) |-> res.findings[i].platform],
              high_priority |-> WithPriority(res.recommendations, "high"),
              medium_priority |-> WithPriority(res.recommendations, "medium")]

(***************************************************************************)
(* Inputs.                                                                 *)
(***************************************************************************)
\* the findings a research process can have stored in research_results
Findings ==
    {[type |-> "data_broker", platform |-> "WhitePages", privacy_risk |-> risk] :
        risk \in {"high", "medium", "low"}}
FindingLists == SeqsUpTo(Findings, MaxFindings)

\* the user_info dicts given to start_research: name, age and location as
\* typed by the user, the age character by character
UserInfos ==
    {[name |-> "Ann", age |-> <<"3", "0">>, location |-> "Oslo"],
     [name |-> "Ann", age |-> <<"t", "h", "i", "r", "t", "y">>, location |-> "Oslo"],
     [name |-> "Ann"],
     [location |-> "Oslo"]}

\* lexemes of the texts given to analyze_text
TextLexemes ==
    {"new", "reliable", "confident", "love", "sad", "mine", "hi", "I",
     " ", ".", "!", "?"}
Texts == SeqsUpTo(TextLexemes, MaxTextLen)

\* user scores k / GridDen
Grid == {R(k, GridDen) : k \in 0..GridDen}
UserScoreKeys == Traits \cup {"self_focus"}
UserScoreDicts ==
    UNION {[K -> Grid] : K \in {S \in SUBSET UserScoreKeys : Cardinality(S) <= MaxKeys}}

\* lexemes of the messages given to analyze_message
MsgLexemes ==
    {"please", "cool", "love", "analyze", "awesome", "a",
     " ", ".", "!", "?"}
Messages == SeqsUpTo(MsgLexemes, MaxMsgLen)

\* the messages of a conversation with several turns
LearnerMessages ==
    {<<>>,
     <<"!", "!", "!">>,
     <<"please">>,
     <<"cool", " ", "please", " ", "cool">>,
     <<"love", "?">>,
     <<"I", " ", "analyze", " ", "a", " ", "hypothesis", ".">>,
     <<"hi", ".", "awesome", "!">>,
     <<"why", "?", "?">>,
     <<"study", " ", "music">>,
     <<"I", " ", "love", " ", "my", " ", "job">>,
     <<"oh", " ", "great", ".", ".", ".">>,
     <<"is", " ", "it", " ", "not", " ", "great", "?", " ", "right", "?">>,
     <<"my", " ", "mess", " ", "lol", ".", "a", " ", "a", " ", "a", ".">>,
     <<"I", " ", "am", " ", "stupid">>,
     <<"don", "'", "t", " ", "say", " ", "great">>}

\* messages whose observed values all are 0.5 and which hold no formality
\* indicator: they leave the numeric profile of a new learner as it is
SteadyMessages ==
    {<<"amazing", " ", "amazing", " ", "journey", " ", "hello", " ",
       "a", " ", "a", " ", "a", " ", "a", " ", "a", " ", "a", "?">>,
     <<"love", " ", "journey", " ", "believe", " ", "mountain", " ",
       "a", " ", "a", " ", "a", " ", "a", " ", "a", " ", "a", "?">>,
     <<"incredible", " ", "amazing", " ", "journey", " ", "hi", " ",
       "a", " ", "a", " ", "a", " ", "a", " ", "a", " ", "a", "?">>}

\* a formal, a neutral and an informal message
TrendMessages == {<<"please">>, <<"hi">>, <<"cool">>}

\* messages that, repeated, move the profile across the thresholds of
\* adapt_response_style: all three, the vocabulary one, the formality one,
\* the formality and the expressiveness one, the vocabulary and the
\* expressiveness one, the expressiveness one
StyleMessages ==
    {<<"yep", "!">>, <<"hi">>, <<"totally">>, <<"totally", "!">>, <<"wow", "!">>,
     <<"amazing", "!">>}

\* pieces of base responses, character by character
ResponsePieces ==
    {<<"I", " ", "w", "o", "u", "l", "d">>,
     <<"c", "a", "n", "n", "o", "t">>,
     <<"d", "o", " ", "n", "o", "t">>,
     <<"u", "t", "i", "l", "i", "z", "e">>,
     <<"f", "a", "c", "i", "l", "i", "t", "a", "t", "e">>,
     <<"d", "e", "m", "o", "n", "s", "t", "r", "a", "t", "e">>,
     <<"a", "p", "p", "r", "o", "x", "i", "m", "a", "t", "e", "l", "y">>,
     <<"s", "u", "b", "s", "e", "q", "u", "e", "n", "t", "l", "y">>,
     <<"i", "l", "i", "z", "e">>,
     <<"c", "a", "n", "n", "o">>,
     <<"!">>,
     <<" ", "g", "o">>}

RECURSIVE PiecesUpTo(_)
\* the texts made of up to n pieces
PiecesUpTo(n) ==
    IF n = 0 THEN {<<>>}
    ELSE PiecesUpTo(n - 1) \cup {t \o pc : t \in PiecesUpTo(n - 1), pc \in ResponsePieces}
BaseResponses == PiecesUpTo(MaxPieces)

\* the messages of the users of two sessions
SessionMessages == {<<"love", ".">>, <<"new", " ", "job">>}

\* the messages of a chat
ChatMessages ==
    {<<>>,
     <<"new">>,
     <<"reliable", "!">>,
     <<"new", " ", "reliable", " ", "new">>,
     <<"please", " ", "explore", "?">>,
     <<"love", ".">>,
     <<"confident", "!">>}

\* the personality_indicators dicts given to _evolve_personality
IndicatorDicts == {analyze_text(m) : m \in ChatMessages}

(***************************************************************************)
(* State after construction.                                               *)
(***************************************************************************)
\* the users two sessions are created for
Sessions == {"user1", "user2"}

\* mutant of NewList: one list object per entry, whoever it is created for
NewList_Shared(owner, field) == <<"user1", field>>

\* a list display [] in __init__: a new list object at each evaluation,
\* named here by the session and the entry it is created for
NewList(owner, field) == <<owner, field>>

\* StyleLearner.__init__: self.user_patterns
NewUserPatterns(owner) ==
    [vocabulary_level |-> Half,
     sentence_length_preference |-> Half,
     humor_style |-> "unknown",
     emotional_expressiveness |-> Half,
     formality_level |-> Half,
     question_frequency |-> Half,
     topic_interests |-> NewList(owner, "topic_interests"),
     communication_quirks |-> NewList(owner, "communication_quirks")]

\* the list objects of freshly constructed sessions, all empty
NewHeap ==
    [id \in {NewList(o, f) : o \in Sessions, f \in {"topic_interests", "communication_quirks"}}
        |-> <<>>]

InitUserPatterns == NewUserPatterns("user1")

\* RenCore.__init__: self.ren_personality
InitRenPersonality ==
    [openness |-> R(5, 10),
     conscientiousness |-> R(5, 10),
     extraversion |-> R(5, 10),
     agreeableness |-> R(8, 10),
     neuroticism |-> R(3, 10),
     humor_style |-> "self_aware_sarcastic",
     curiosity_level |-> R(9, 10),
     trust_level |-> R(1, 10)]

\* the state of freshly constructed objects, no call made yet
Fresh ==
    /\ scores = NoValue
    /\ complementary = NoValue
    /\ user_patterns = InitUserPatterns
    /\ message_history = <<>>
    /\ analysis = NoValue
    /\ ren_personality = InitRenPersonality
    /\ conversation_history = <<>>
    /\ ren_response = NoReply
    /\ evolve_count = 0
    /\ heap = NewHeap
    /\ other_patterns = NewUserPatterns("user2")
    /\ other_history = <<>>
    /\ other_personality = InitRenPersonality
    /\ summary = NoValue
    /\ base_response = <<>>
    /\ adapted = <<>>
    /\ research_results = <<>>
    /\ privacy_risks = <<>>
    /\ user_info = NoValue
    /\ returned = NoValue
    /\ last = "init"

\* the same, and no message analysed yet
Constructed ==
    /\ message = <<>>
    /\ Fresh

Init ==
    /\ text = <<>>
    /\ user_scores = NoValue
    /\ Constructed

\* a caller holds a text it is about to pass to analyze_text
InitTraits ==
    /\ text \in Texts
    /\ user_scores = NoValue
    /\ Constructed

\* a caller holds a score dict it is about to pass to get_complementary_traits
InitComplementary ==
    /\ text = <<>>
    /\ user_scores \in UserScoreDicts
    /\ Constructed

(***************************************************************************)
(* Operations of BigFiveAnalyzer.                                          *)
(***************************************************************************)
AnalyzeText ==
    /\ last = "init"
    /\ scores' = analyze_text(text)
    /\ last' = "analyze_text"
    /\ UNCHANGED <<text, user_scores, complementary, message, user_patterns, message_history,
                   analysis, ren_personality, conversation_history,
                   ren_response, evolve_count, heap, other_vars, caller_vars,
                   guardian_vars>>

GetComplementaryTraits ==
    /\ last = "init"
    /\ complementary' = get_complementary_traits(user_scores)
    /\ last' = "get_complementary_traits"
    /\ UNCHANGED <<text, scores, user_scores, message, user_patterns, message_history, analysis,
                   ren_personality, conversation_history,
                   ren_response, evolve_count, heap, other_vars, caller_vars,
                   guardian_vars>>

\* the trait scorer applied to every text
SpecTraits == InitTraits /\ [][AnalyzeText]_vars

\* the rule table applied to every user score dict
SpecComplementary == InitComplementary /\ [][GetComplementaryTraits]_vars

(***************************************************************************)
(* Operations of StyleLearner.                                             *)
(***************************************************************************)
\* StyleLearner.analyze_message
analyze_message(msg) ==
    LET a == Analysis(msg)
    IN  /\ message' = msg
        /\ message_history' = Append(message_history, HistoryEntry(msg, a, message_history))
        /\ user_patterns' = _update_patterns(user_patterns, a)
        /\ heap' = _update_patterns_lists(user_patterns, a, heap)
        /\ analysis' = a

\* one turn of a conversation
AnalyzeMessage ==
    /\ Len(message_history) < MaxCalls
    /\ \E msg \in LearnerMessages : analyze_message(msg)
    /\ last' = "analyze_message"
    /\ UNCHANGED <<text, scores, user_scores, complementary, ren_personality, conversation_history,
                   ren_response, evolve_count, other_vars, caller_vars,
                   guardian_vars>>

\* the same message once more
AnalyzeSame ==
    /\ Len(message_history) < MaxRepeat
    /\ analyze_message(message)
    /\ last' = "analyze_message"
    /\ UNCHANGED <<text, scores, user_scores, complementary, ren_personality, conversation_history,
                   ren_response, evolve_count, other_vars, caller_vars,
                   guardian_vars>>

\* a caller holds a message it is about to pass to analyze_message, again and again
InitRepeat ==
    /\ text = <<>>
    /\ user_scores = NoValue
    /\ message \in Messages
    /\ Fresh

\* a caller holds a steady message it is about to send again and again
InitSteady ==
    /\ text = <<>>
    /\ user_scores = NoValue
    /\ message \in SteadyMessages
    /\ Fresh

\* the same steady message once more
AnalyzeSteady ==
    /\ Len(message_history) < MaxSteady
    /\ analyze_message(message)
    /\ last' = "analyze_message"
    /\ UNCHANGED <<text, scores, user_scores, complementary, ren_personality, conversation_history,
                   ren_response, evolve_count, other_vars, caller_vars,
                   guardian_vars>>

\* one turn of a conversation whose trend is asked for
AnalyzeTrend ==
    /\ Len(message_history) < MaxTrend
    /\ \E msg \in TrendMessages : analyze_message(msg)
    /\ last' = "analyze_message"
    /\ UNCHANGED <<text, scores, user_scores, complementary, ren_personality, conversation_history,
                   ren_response, evolve_count, other_vars, caller_vars,
                   guardian_vars>>

\* a caller holds a message it is about to send again and again before it
\* has responses adapted
InitStyle ==
    /\ text = <<>>
    /\ user_scores = NoValue
    /\ message \in StyleMessages
    /\ Fresh

\* the same message once more, no response adapted so far
AnalyzeStyle ==
    /\ last \in {"init", "analyze_message"}
    /\ Len(message_history) < MaxStyle
    /\ analyze_message(message)
    /\ last' = "analyze_message"
    /\ UNCHANGED <<text, scores, user_scores, complementary, ren_personality, conversation_history,
                   ren_response, evolve_count, other_vars, caller_vars,
                   guardian_vars>>

\* StyleLearner.adapt_response_style on a base response
AdaptResponseStyle ==
    /\ last \in {"init", "analyze_message"}
    /\ \E response \in BaseResponses :
          /\ base_response' = response
          /\ adapted' = adapt_response_style(response)
    /\ last' = "adapt_response_style"
    /\ UNCHANGED <<text, scores, user_scores, complementary, message, user_patterns,
                   message_history, analysis, ren_personality, conversation_history,
                   ren_response, evolve_count, heap, other_vars, summary,
                   guardian_vars>>

\* StyleLearner.adapt_response_style on the text the last call returned
AdaptAgain ==
    /\ last = "adapt_response_style"
    /\ base_response' = adapted
    /\ adapted' = adapt_response_style(adapted)
    /\ last' = "adapt_response_style"
    /\ UNCHANGED <<text, scores, user_scores, complementary, message, user_patterns,
                   message_history, analysis, ren_personality, conversation_history,
                   ren_response, evolve_count, heap, other_vars, summary,
                   guardian_vars>>

\* a caller asks for the summary and keeps it
GetCommunicationSummary ==
    /\ summary' = get_communication_summary
    /\ last' = "get_communication_summary"
    /\ UNCHANGED <<text, scores, user_scores, complementary, message, user_patterns,
                   message_history, analysis, ren_personality, conversation_history,
                   ren_response, evolve_count, heap, other_vars, base_response,
                   adapted, guardian_vars>>

\* conversations of up to MaxCalls messages with one learner
SpecLearner == Init /\ [][AnalyzeMessage]_vars

\* one message analysed up to MaxRepeat times by one learner
SpecRepeat == InitRepeat /\ [][AnalyzeSame]_vars

\* the caller appends to the topic_interests list of the summary it holds:
\* summary["patterns"]["topic_interests"].append("health")
CallerAppendsTopic ==
    /\ summary # NoValue
    /\ \A i \in 1..Len(heap[summary.patterns.topic_interests]) :
          heap[summary.patterns.topic_interests][i] # "health"
    /\ heap' = [heap EXCEPT ![summary.patterns.topic_interests] = Append(@, "health")]
    /\ last' = "caller_appends_topic"
    /\ UNCHANGED <<text, scores, user_scores, complementary, message, user_patterns,
                   message_history, analysis, ren_personality, conversation_history,
                   ren_response, evolve_count, other_vars, caller_vars, guardian_vars>>

\* the caller assigns to an entry of the patterns dict of the summary it
\* holds: summary["patterns"]["humor_style"] = "dry"
CallerSetsHumorStyle ==
    /\ summary # NoValue
    /\ summary.patterns.humor_style # "dry"
    /\ summary' = [summary EXCEPT !.patterns.humor_style = "dry"]
    /\ last' = "caller_sets_humor_style"
    /\ UNCHANGED <<text, scores, user_scores, complementary, message, user_patterns,
                   message_history, analysis, ren_personality, conversation_history,
                   ren_response, evolve_count, heap, other_vars, base_response,
                   adapted, guardian_vars>>

\* conversations of up to MaxTrend formal, neutral and informal messages, the
\* summary asked for at any time
SpecTrends == Init /\ [][AnalyzeTrend \/ GetCommunicationSummary]_vars

\* one message analysed up to MaxStyle times, then responses adapted
SpecStyle == InitStyle /\ [][AnalyzeStyle \/ AdaptResponseStyle \/ AdaptAgain]_vars

\* one steady message analysed up to MaxSteady times, the summary asked for
\* at any time
SpecSteady == InitSteady /\ [][AnalyzeSteady \/ GetCommunicationSummary]_vars

(***************************************************************************)
(* Operations of RenCore.                                                  *)
(***************************************************************************)
\* RenCore.chat
Chat ==
    /\ Len(message_history) < MaxChats
    /\ \E user_message \in ChatMessages :
          LET personality_indicators == analyze_text(user_message)
          IN  /\ text' = user_message
              /\ scores' = personality_indicators
              /\ analyze_message(user_message)
              /\ ren_response' \in _generate_response(ren_personality)
              /\ ren_personality' = _evolve_personality(ren_personality, personality_indicators)
    /\ evolve_count' = evolve_count + 1
    /\ last' = "chat"
    /\ UNCHANGED <<user_scores, complementary, conversation_history, other_vars,
                   caller_vars, guardian_vars>>

\* RenCore._evolve_personality, the step that ends every chat call
Evolve ==
    /\ evolve_count < MaxEvolves
    /\ \E personality_indicators \in IndicatorDicts :
          /\ scores' = personality_indicators
          /\ ren_personality' = _evolve_personality(ren_personality, personality_indicators)
    /\ evolve_count' = evolve_count + 1
    /\ last' = "evolve"
    /\ UNCHANGED <<text, user_scores, complementary, message, user_patterns,
                   message_history, analysis, conversation_history, ren_response,
                   heap, other_vars, caller_vars, guardian_vars>>

\* RenCore.chat on the first session
ChatUser1 ==
    /\ Len(message_history) < MaxTurns
    /\ \E user_message \in SessionMessages :
          LET personality_indicators == analyze_text(user_message)
          IN  /\ text' = user_message
              /\ scores' = personality_indicators
              /\ analyze_message(user_message)
              /\ ren_response' \in _generate_response(ren_personality)
              /\ ren_personality' = _evolve_personality(ren_personality, personality_indicators)
    /\ evolve_count' = evolve_count + 1
    /\ last' = "chat"
    /\ UNCHANGED <<user_scores, complementary, conversation_history, other_vars,
                   caller_vars, guardian_vars>>

\* StyleLearner.analyze_message on the learner of the first session
AnalyzeUser1 ==
    /\ Len(message_history) < MaxTurns
    /\ \E msg \in SessionMessages : analyze_message(msg)
    /\ last' = "analyze_message"
    /\ UNCHANGED <<text, scores, user_scores, complementary, ren_personality, conversation_history,
                   ren_response, evolve_count, other_vars, caller_vars,
                   guardian_vars>>

\* StyleLearner.analyze_message on the learner of the second session
analyze_message_other(msg) ==
    LET a == Analysis(msg)
    IN  /\ other_history' = Append(other_history, HistoryEntry(msg, a, other_history))
        /\ other_patterns' = _update_patterns(other_patterns, a)
        /\ heap' = _update_patterns_lists(other_patterns, a, heap)

\* RenCore.chat on the second session, its reply dropped
ChatUser2 ==
    /\ Len(other_history) < MaxTurns
    /\ \E user_message \in SessionMessages :
          /\ analyze_message_other(user_message)
          /\ other_personality' =
                _evolve_personality(other_personality, analyze_text(user_message))
    /\ last' = "chat"
    /\ UNCHANGED <<text, scores, user_scores, complementary, message, user_patterns,
                   message_history, analysis, ren_personality, conversation_history,
                   ren_response, evolve_count, caller_vars, guardian_vars>>

\* StyleLearner.analyze_message on the learner of the second session, its
\* result dropped
AnalyzeUser2 ==
    /\ Len(other_history) < MaxTurns
    /\ \E msg \in SessionMessages : analyze_message_other(msg)
    /\ last' = "analyze_message"
    /\ UNCHANGED <<text, scores, user_scores, complementary, message, user_patterns,
                   message_history, analysis, ren_personality, conversation_history,
                   ren_response, evolve_count, other_personality, caller_vars,
                   guardian_vars>>

\* two sessions, each user making up to MaxTurns calls, in any order
SpecSessions ==
    Init /\ [][ChatUser1 \/ AnalyzeUser1 \/ ChatUser2 \/ AnalyzeUser2]_vars

\* one learner, up to MaxTurns messages, and a caller that asks for the
\* summary at any time and changes what it got
SpecSnapshot ==
    Init /\ [][AnalyzeUser1 \/ GetCommunicationSummary \/ CallerAppendsTopic
                 \/ CallerSetsHumorStyle]_vars

\* RenCore.chat statement by statement, on the steady message the caller
\* holds.  First statement: the trait scoring.
ChatScore ==
    /\ last \in {"init", "chat"}
    /\ evolve_count < MaxEvolves
    /\ text' = message
    /\ scores' = analyze_text(message)
    /\ last' = "chat:analyze_text"
    /\ UNCHANGED <<user_scores, complementary, message, user_patterns, message_history,
                   analysis, ren_personality, conversation_history, ren_response,
                   evolve_count, heap, other_vars, caller_vars, guardian_vars>>

\* mutant of ChatAnalyze: the message is analysed twice
ChatAnalyze_Twice ==
    /\ last = "chat:analyze_text"
    /\ message' = text
    /\ message_history' =
          LET once == Append(message_history,
                             HistoryEntry(text, Analysis(text), message_history))
          IN  Append(once, HistoryEntry(text, Analysis(text), once))
    /\ user_patterns' = _update_patterns(user_patterns, Analysis(text))
    /\ heap' = _update_patterns_lists(user_patterns, Analysis(text), heap)
    /\ analysis' = Analysis(text)
    /\ last' = "chat:analyze_message"
    /\ UNCHANGED <<text, scores, user_scores, complementary, ren_personality, conversation_history,
                   ren_response, evolve_count, other_vars, caller_vars,
                   guardian_vars>>

\* second statement: self.style_learner.analyze_message(user_message)
ChatAnalyze ==
    /\ last = "chat:analyze_text"
    /\ analyze_message(text)
    /\ last' = "chat:analyze_message"
    /\ UNCHANGED <<text, scores, user_scores, complementary, ren_personality, conversation_history,
                   ren_response, evolve_count, other_vars, caller_vars,
                   guardian_vars>>

\* mutant of ChatRespond: the reply is chosen from the persona as the evolve
\* step of the call will leave it
ChatRespond_AfterEvolve ==
    /\ last = "chat:analyze_message"
    /\ ren_response' \in _generate_response(_evolve_personality(ren_personality, scores))
    /\ last' = "chat:_generate_response"
    /\ UNCHANGED <<text, scores, user_scores, complementary, message, user_patterns,
                   message_history, analysis, ren_personality, conversation_history,
                   evolve_count, heap, other_vars, caller_vars, guardian_vars>>

\* then the reply is generated (the sqlite writes before and after it are
\* left out)
ChatRespond ==
    /\ last = "chat:analyze_message"
    /\ ren_response' \in _generate_response(ren_personality)
    /\ last' = "chat:_generate_response"
    /\ UNCHANGED <<text, scores, user_scores, complementary, message, user_patterns,
                   message_history, analysis, ren_personality, conversation_history,
                   evolve_count, heap, other_vars, caller_vars, guardian_vars>>

\* last statement before the return: self._evolve_personality(...)
ChatEvolve ==
    /\ last = "chat:_generate_response"
    /\ ren_personality' = _evolve_personality(ren_personality, scores)
    /\ evolve_count' = evolve_count + 1
    /\ last' = "chat"
    /\ UNCHANGED <<text, scores, user_scores, complementary, message, user_patterns,
                   message_history, analysis, conversation_history, ren_response,
                   heap, other_vars, caller_vars, guardian_vars>>

\* up to MaxEvolves chat calls with one steady message, statement by statement
SpecChatSteps ==
    InitSteady /\ [][ChatScore \/ ChatAnalyze \/ ChatRespond \/ ChatEvolve]_vars

\* chats of up to MaxChats messages with one RenCore
SpecChat == Init /\ [][Chat]_vars

\* up to MaxEvolves evolve steps of one persona
SpecEvolve == Init /\ [][Evolve]_vars

\* the same, the caller never stopping before MaxEvolves steps
FairSpecEvolve == Init /\ [][Evolve]_vars /\ WF_vars(Evolve)

(***************************************************************************)
(* Operations of DigitalGuardian.                                          *)
(***************************************************************************)
\* a guardian just constructed, or one whose research process has stored
\* its findings, no assessment made yet
InitGuardian ==
    /\ text = <<>>
    /\ user_scores = NoValue
    /\ message = <<>>
    /\ scores = NoValue
    /\ complementary = NoValue
    /\ user_patterns = InitUserPatterns
    /\ message_history = <<>>
    /\ analysis = NoValue
    /\ ren_personality = InitRenPersonality
    /\ conversation_history = <<>>
    /\ ren_response = NoReply
    /\ evolve_count = 0
    /\ heap = NewHeap
    /\ other_patterns = NewUserPatterns("user2")
    /\ other_history = <<>>
    /\ other_personality = InitRenPersonality
    /\ summary = NoValue
    /\ base_response = <<>>
    /\ adapted = <<>>
    /\ research_results \in FindingLists
    /\ privacy_risks = <<>>
    /\ user_info \in {[name |-> "Ann"]} \cup (IF research_results = <<>> THEN {NoValue} ELSE {})
    /\ returned = NoValue
    /\ last = "init"

\* DigitalGuardian._assess_privacy_risks
AssessPrivacyRisks ==
    /\ last = "init"
    /\ user_info # NoValue
    /\ privacy_risks' = _assess_privacy_risks(research_results)
    /\ last' = "_assess_privacy_risks"
    /\ UNCHANGED <<text, scores, user_scores, complementary, message, user_patterns,
                   message_history, analysis, ren_personality, conversation_history,
                   ren_response, evolve_count, heap, other_vars, caller_vars,
                   research_results, user_info, returned>>

\* DigitalGuardian.start_research: user_info is stored, the queries are
\* generated, then the simulated research stores its findings and their
\* assessment; an exception of the query generation ends the call before
StartResearch ==
    /\ \E info \in UserInfos :
          LET search_queries == _generate_search_queries(info)
          IN  /\ user_info' = info
              /\ IF "raised" \in DOMAIN search_queries
                 THEN /\ returned' = search_queries
                      /\ UNCHANGED <<research_results, privacy_risks>>
                 ELSE /\ research_results' = simulated_findings
                      /\ privacy_risks' = _assess_privacy_risks(simulated_findings)
                      /\ returned' = [status |-> "initiated",
                                      queries_generated |-> search_queries.len]
    /\ last' = "start_research"
    /\ UNCHANGED <<text, scores, user_scores, complementary, message, user_patterns,
                   message_history, analysis, ren_personality, conversation_history,
                   ren_response, evolve_count, heap, other_vars, caller_vars>>

\* no research process is under way
Idle == last # "init" \/ user_info = NoValue

\* DigitalGuardian.get_research_results
GetResearchResults ==
    /\ Idle
    /\ returned' = get_research_results(research_results, privacy_risks)
    /\ last' = "get_research_results"
    /\ UNCHANGED <<text, scores, user_scores, complementary, message, user_patterns,
                   message_history, analysis, ren_personality, conversation_history,
                   ren_response, evolve_count, heap, other_vars, caller_vars,
                   research_results, privacy_risks, user_info>>

\* DigitalGuardian.generate_privacy_report
GeneratePrivacyReport ==
    /\ Idle
    /\ returned' = generate_privacy_report(research_results, privacy_risks, user_info)
    /\ last' = "generate_privacy_report"
    /\ UNCHANGED <<text, scores, user_scores, complementary, message, user_patterns,
                   message_history, analysis, ren_personality, conversation_history,
                   ren_response, evolve_count, heap, other_vars, caller_vars,
                   research_results, privacy_risks, user_info>>

\* the assessment of every list of up to MaxFindings findings, and of the
\* simulated research
SpecGuardian ==
    InitGuardian /\ [][AssessPrivacyRisks \/ StartResearch \/ GetResearchResults
                        \/ GeneratePrivacyReport]_vars

(***************************************************************************)
(* Properties.                                                             *)
(***************************************************************************)
TenKeys ==
    {"openness", "conscientiousness", "extraversion", "agreeableness", "neuroticism",
     "linguistic_complexity", "curiosity_indicators", "enthusiasm_indicators",
     "self_focus", "sentiment_ratio"}

\* analyze_text has returned
Scored == last \in {"analyze_text", "chat"}

\* the tokens of the text last given to analyze_text
TextTokens == Analyzer_tokenize(Lower(text))

\* C3: every value analyze_text returns, the five trait scores and the five
\* linguistic features, lies in [0, 1], for every text, the empty one included.
C3_ScoresInUnit ==
    Scored =>
        /\ DOMAIN scores = TenKeys
        /\ \A k \in TenKeys : InUnit(scores[k])

\* C3 witness: a one-word text whose raw self-focus rate, 10, is clamped to 1
C3_Witness ==
    /\ last = "analyze_text"
    /\ text = <<"mine">>
    /\ scores.self_focus = One

HighCount(trait) ==
    Cardinality({i \in 1..Len(TextTokens) : TextTokens[i] \in trait_indicators[trait].high})
LowCount(trait) ==
    Cardinality({i \in 1..Len(TextTokens) : TextTokens[i] \in trait_indicators[trait].low})

\* C4: with at least one token, a trait score is 0.5 when the tokens hold no
\* high and no low keyword of the trait, and high / (high + low) otherwise,
\* whatever the length of the message: one high keyword and no low keyword
\* gives exactly 1.
C4_TraitRatio ==
    (Scored /\ Len(TextTokens) >= 1) =>
        \A trait \in Traits :
            LET h == HighCount(trait)
                l == LowCount(trait)
            IN  /\ (h + l = 0) => scores[trait] = Half
                /\ (h + l > 0) => RMul(scores[trait], RInt(h + l)) = RInt(h)
                /\ (h = 1 /\ l = 0) => scores[trait] = One

\* C4 witness: two tokens, one of them the only openness keyword, score 1
C4_Witness ==
    /\ last = "analyze_text"
    /\ Len(TextTokens) = 2
    /\ HighCount("openness") = 1
    /\ LowCount("openness") = 0
    /\ scores.openness = One

\* every maximal run of word characters of the text has at most 2 characters
OnlyShortWords ==
    \A i \in 1..Len(text) :
        IsWordLexeme(text[i]) =>
            /\ Len(text[i]) <= 2
            /\ (i > 1 => ~IsWordLexeme(text[i - 1]))
            /\ (i < Len(text) => ~IsWordLexeme(text[i + 1]))

\* C5: when the text has no token (empty, whitespace only, punctuation only,
\* or only words of at most 2 characters) analyze_text returns 0.5 in each of
\* its ten fields.
C5_NoTokensDefault ==
    (Scored /\ (TextTokens = <<>> \/ OnlyShortWords)) =>
        /\ DOMAIN scores = TenKeys
        /\ \A k \in TenKeys : scores[k] = Half

\* C5 witness: a non-empty text of short words and punctuation got the defaults
C5_Witness ==
    /\ last = "analyze_text"
    /\ \E i \in 1..Len(text) : text[i] = "hi"
    /\ \E i \in 1..Len(text) : text[i] = "?"
    /\ TextTokens = <<>>
    /\ scores.curiosity_indicators = Half

\* C6: the rule table of get_complementary_traits, and no output key for an
\* input key that is not a Big-Five trait.
C6_RuleTable ==
    last = "get_complementary_traits" =>
        /\ DOMAIN complementary = DOMAIN user_scores \cap Traits
        /\ \A k \in DOMAIN complementary :
            LET u == user_scores[k]
                c == complementary[k]
            IN  /\ k = "agreeableness" => c = RMax(R(7, 10), u)
                /\ k = "neuroticism" =>
                      c = RMax(R(1, 5), RSub(One, RMul(R(4, 5), u)))
                /\ k = "openness" =>
                      c = (IF RLt(R(7, 10), u) THEN R(3, 5)
                           ELSE IF RLt(u, R(3, 10)) THEN R(4, 5) ELSE R(7, 10))
                /\ k \in {"conscientiousness", "extraversion"} =>
                      c = (IF RLt(R(3, 5), u) THEN RSub(u, R(1, 5))
                           ELSE IF RLt(u, R(2, 5)) THEN RAdd(u, R(1, 5)) ELSE u)

\* C6 witness: a very open user and a key that is no trait
C6_Witness ==
    /\ last = "get_complementary_traits"
    /\ DOMAIN user_scores = {"openness", "self_focus"}
    /\ user_scores.openness = R(4, 5)
    /\ complementary.openness = R(3, 5)
    /\ "self_focus" \notin DOMAIN complementary

NumericFields ==
    {"vocabulary_level", "sentence_length_preference", "emotional_expressiveness",
     "formality_level", "question_frequency"}

\* the sum of the five emotional sub-scores of an analysis
EmotionSum(a) ==
    LET e == a.emotional_indicators
    IN  RAdd(e.excitement, RAdd(e.enthusiasm, RAdd(e.concern, RAdd(e.affection, e.frustration))))

\* the value each smoothed field is moved toward by an analysis
Observed(a) ==
    [vocabulary_level |-> a.vocabulary_complexity,
     sentence_length_preference |-> RMin(One, RMul(a.avg_sentence_length, R(1, 20))),
     emotional_expressiveness |-> RMin(One, EmotionSum(a)),
     question_frequency |-> a.question_patterns.question_ratio]

\* C1: after any sequence of analyze_message calls each of the five numeric
\* profile fields lies in [0, 1]; so does each observed value folded into them.
C1_ProfileInUnit ==
    /\ \A f \in NumericFields : InUnit(user_patterns[f])
    /\ last = "analyze_message" =>
          \A f \in DOMAIN Observed(analysis) : InUnit(Observed(analysis)[f])

\* C1 witness: three calls, the last one with a raw emotion sum above 1
C1_Witness ==
    /\ last = "analyze_message"
    /\ Len(message_history) >= 3
    /\ RLt(One, EmotionSum(analysis))
    /\ RLt(Half, user_patterns.emotional_expressiveness)

\* C9: analysing the same message again moves each of the four fields to
\* 0.9 * old + 0.1 * observed; the distance to the observed value shrinks by
\* the factor 0.9 (so it never grows and tends to 0) and the field never
\* crosses the observed value.
C9_Step ==
    last' = "analyze_message" =>
        \A f \in DOMAIN Observed(analysis') :
            LET obs == Observed(analysis')[f]
                old == user_patterns[f]
                new == user_patterns'[f]
            IN  /\ new = RAdd(RMul(R(9, 10), old), RMul(R(1, 10), obs))
                /\ RAbs(RSub(new, obs)) = RMul(R(9, 10), RAbs(RSub(old, obs)))
                /\ RLe(RAbs(RSub(new, obs)), RAbs(RSub(old, obs)))
                /\ RLe(old, obs) => RLe(new, obs)
                /\ RLe(obs, old) => RLe(obs, new)
C9_SmoothTowardObserved == [][C9_Step]_vars

\* C9 witness: the same message three times or more, the vocabulary level
\* strictly between its start 0.5 and the observed value
C9_Witness ==
    /\ last = "analyze_message"
    /\ Len(message_history) >= 3
    /\ \A i \in 1..Len(message_history) : message_history[i].message = message
    /\ RLt(Half, user_patterns.vocabulary_level)
    /\ RLt(user_patterns.vocabulary_level, analysis.vocabulary_complexity)

MessageTokens(msg) == Learner_tokenize(Lower(msg))
FormalCount(msg) ==
    Cardinality({i \in 1..Len(MessageTokens(msg)) : MessageTokens(msg)[i] \in FormalIndicators})
InformalCount(msg) ==
    Cardinality({i \in 1..Len(MessageTokens(msg)) : MessageTokens(msg)[i] \in InformalIndicators})

\* C10: a message with no formal and no informal indicator token leaves
\* formality_level unchanged; any other message moves it to
\* 0.9 * old + 0.1 * formal_rate / (formal_rate + informal_rate).
C10_Step ==
    last' = "analyze_message" =>
        LET fc == FormalCount(message')
            ic == InformalCount(message')
            n == Len(MessageTokens(message'))
            old == user_patterns.formality_level
            new == user_patterns'.formality_level
        IN  /\ (fc = 0 /\ ic = 0) => new = old
            /\ (fc + ic > 0) =>
                  new = RAdd(RMul(R(9, 10), old),
                             RMul(R(1, 10), RDiv(R(fc, n), RAdd(R(fc, n), R(ic, n)))))
C10_FormalityFrame == [][C10_Step]_vars

\* C10 witness: formality moved off 0.5 by an earlier message, then a message
\* with no indicator token
C10_Witness ==
    /\ last = "analyze_message"
    /\ Len(message_history) >= 2
    /\ FormalCount(message) = 0
    /\ InformalCount(message) = 0
    /\ Len(MessageTokens(message)) > 0
    /\ user_patterns.formality_level # Half

\* C2: after K evolve steps trust_level is min(1, 0.1 + 0.01 * K); it never
\* decreases and never exceeds 1.
C2_TrustAfterK ==
    /\ [](/\ ren_personality.trust_level = RMin(One, RAdd(R(1, 10), R(evolve_count, 100)))
          /\ RLe(ren_personality.trust_level, One))
    /\ [][RLe(ren_personality.trust_level, ren_personality'.trust_level)]_vars

\* C2 witness: more than 90 evolve steps, trust_level held at the cap
C2_Witness ==
    /\ last = "evolve"
    /\ evolve_count > 90
    /\ ren_personality.trust_level = One

StageOf(label) ==
    CASE label = "Getting to know you - I'm still learning your style!" -> 1
      [] label = "Building rapport - I'm starting to understand you better" -> 2
      [] label = "Developing friendship - We're getting comfortable with each other" -> 3
      [] label = "Deep connection - I feel like I really know you now" -> 4
      [] OTHER -> 0

\* the stage get_personality_summary reports
ReportedStage == StageOf(get_personality_summary.development_stage)

\* the stage the thresholds 0.2, 0.5, 0.8 give for a trust level
StageByTrust(trust) ==
    IF RLt(trust, R(1, 5)) THEN 1
    ELSE IF RLt(trust, R(1, 2)) THEN 2
    ELSE IF RLt(trust, R(4, 5)) THEN 3
    ELSE 4

\* C8: the reported stage is the one the thresholds give for trust_level; it
\* never moves to an earlier stage; with the calls repeated it reaches stage 4
\* and stays there.
C8_StageLadder ==
    /\ [](ReportedStage = StageByTrust(ren_personality.trust_level))
    /\ [][ReportedStage' >= ReportedStage]_vars
    /\ <>[](ReportedStage = 4)

\* C8 witness: stage 4 reached, at the threshold 0.8 itself
C8_Witness ==
    /\ last = "evolve"
    /\ ren_personality.trust_level = R(4, 5)
    /\ ReportedStage = 4

\* the list object user_patterns["topic_interests"] refers to
TopicInterests == heap[user_patterns.topic_interests]

NoDuplicates(seq) == \A i, j \in 1..Len(seq) : seq[i] = seq[j] => i = j
IsPrefix(s, t) == Len(s) <= Len(t) /\ SubSeq(t, 1, Len(s)) = s
ElementsOf(seq) == {seq[i] : i \in 1..Len(seq)}

\* C11: topic_interests is append-only and free of duplicates: its value
\* before an analyze_message call is a prefix of its value after the call,
\* and every topic category detected in the message is in it after the call.
C11_Step ==
    last' = "analyze_message" =>
        /\ IsPrefix(TopicInterests, TopicInterests')
        /\ NoDuplicates(TopicInterests')
        /\ ElementsOf(analysis'.topics_mentioned) \subseteq ElementsOf(TopicInterests')
        /\ ElementsOf(TopicInterests') =
              ElementsOf(TopicInterests) \cup ElementsOf(analysis'.topics_mentioned)
C11_TopicsAppendOnly == [][C11_Step]_vars

\* C11 witness: a message with two detected topics, one of them already the
\* first entry of the list and the other one new
C11_Witness ==
    /\ last = "analyze_message"
    /\ Len(message_history) >= 2
    /\ Len(analysis.topics_mentioned) = 2
    /\ TopicInterests[1] \in ElementsOf(analysis.topics_mentioned)
    /\ TopicInterests[Len(TopicInterests)] \in ElementsOf(analysis.topics_mentioned)
    /\ Len(TopicInterests) >= 2
    /\ Len(message_history[1].analysis.topics_mentioned) = 1

\* C12: after n analyze_message calls message_history holds n entries in call
\* order, entry i with timestamp i (counted from 0) and the message of call
\* i; a call appends one entry and leaves the others as they are; the
\* summary reports messages_analyzed = n and confidence = min(1, n / 20),
\* which never decreases and is 1 from n = 20 on.
C12_State ==
    /\ \A i \in 1..Len(message_history) :
          /\ message_history[i].timestamp = i - 1
          /\ message_history[i].message = message
    /\ get_communication_summary.messages_analyzed = Len(message_history)
    /\ get_communication_summary.confidence = RMin(One, R(Len(message_history), 20))
    /\ Len(message_history) >= 20 <=> get_communication_summary.confidence = One
    /\ last = "get_communication_summary" => summary = get_communication_summary
C12_Step ==
    /\ last' = "analyze_message" =>
          /\ Len(message_history') = Len(message_history) + 1
          /\ SubSeq(message_history', 1, Len(message_history)) = message_history
          /\ message_history'[Len(message_history')].message = message'
    /\ last' # "analyze_message" => message_history' = message_history
    /\ RLe(get_communication_summary.confidence, get_communication_summary'.confidence)
C12_HistoryAndConfidence == []C12_State /\ [][C12_Step]_vars

\* C12 witness: the summary asked for after the 21st call, an earlier one
\* having reported a confidence below 1
C12_Witness ==
    /\ last = "get_communication_summary"
    /\ Len(message_history) = 21
    /\ summary.messages_analyzed = 21
    /\ summary.confidence = One

\* the share of formal indicator tokens among the tokens of a message
FormalRate(msg) == R(FormalCount(msg), Max2(Len(MessageTokens(msg)), 1))
RECURSIVE SumFormalRates(_, _)
SumFormalRates(history, from) ==
    IF from > Len(history) THEN Zero
    ELSE RAdd(FormalRate(history[from].message), SumFormalRates(history, from + 1))
\* the mean formal rate of the entries from index from on
MeanFormalRate(history, from) ==
    RDiv(SumFormalRates(history, from), RInt(Len(history) - from + 1))
\* the trend the rule gives for a mean rate and a formality level
TrendRule(mean, level) ==
    IF RLt(R(1, 10), RSub(mean, level)) THEN "increasing"
    ELSE IF RLt(R(1, 10), RSub(level, mean)) THEN "decreasing"
    ELSE "stable"

\* C13: recent_trends is {"trend": "insufficient_data"} exactly when fewer
\* than 5 messages were analysed; otherwise its formality entry is
\* "increasing" if the mean formal-word rate of the last five messages
\* exceeds formality_level by more than 0.1, "decreasing" if it is below it by
\* more than 0.1, "stable" otherwise; the entries before the last five do not
\* matter.
C13_RecentTrends ==
    LET trends == get_communication_summary.recent_trends
        n == Len(message_history)
    IN  /\ n < 5 <=> trends = [trend |-> "insufficient_data"]
        /\ n >= 5 =>
              trends = [formality |->
                           TrendRule(MeanFormalRate(message_history, n - 4),
                                     user_patterns.formality_level)]
        /\ last = "get_communication_summary" => summary.recent_trends = trends

\* C13 witness: six messages, the summary asked for; the last five give
\* "stable" where the mean over all six would give "increasing"
C13_Witness ==
    /\ last = "get_communication_summary"
    /\ Len(message_history) = 6
    /\ summary.recent_trends = [formality |-> "stable"]
    /\ TrendRule(MeanFormalRate(message_history, 1), user_patterns.formality_level)
          = "increasing"

\* the text after the contraction substitutions of adapt_response_style
Contracted(response) ==
    IF RLt(user_patterns.formality_level, R(3, 10))
    THEN Replace(Replace(Replace(response,
             <<"I", " ", "w", "o", "u", "l", "d">>, <<"I", "'", "d">>),
             <<"c", "a", "n", "n", "o", "t">>, <<"c", "a", "n", "'", "t">>),
             <<"d", "o", " ", "n", "o", "t">>, <<"d", "o", "n", "'", "t">>)
    ELSE response
\* text.count("!")
Exclamations(response) == Cardinality({i \in 1..Len(response) : response[i] = "!"})
\* the call appends a "!": expressiveness above 0.7, no "!" at the end
AppendsMark(response) ==
    /\ RLt(R(7, 10), user_patterns.emotional_expressiveness)
    /\ ~EndsWith(Contracted(response), "!")

\* C14 as stated: adapt_response_style changes no learner state and appends
\* exactly one "!" iff emotional_expressiveness > 0.7 and the text after the
\* contraction substitutions does not end with "!", so that applying it to
\* its own result gives that result again.
C14_Original_Step ==
    last' = "adapt_response_style" =>
        /\ UNCHANGED <<user_patterns, message_history, heap>>
        /\ Exclamations(adapted') =
              Exclamations(base_response') + (IF AppendsMark(base_response') THEN 1 ELSE 0)
        /\ (last = "adapt_response_style" /\ base_response' = adapted) => adapted' = adapted
C14_Original == [][C14_Original_Step]_vars

\* C14 amended: adapt_response_style changes no learner state and appends
\* exactly one "!" iff emotional_expressiveness > 0.7 and the text after the
\* contraction substitutions does not end with "!"; applied to its own result
\* it appends no further "!", and it returns that result again whenever
\* vocabulary_level >= 0.3 (no word substitution is made).
C14_Step ==
    last' = "adapt_response_style" =>
        /\ UNCHANGED <<user_patterns, message_history, heap>>
        /\ Exclamations(adapted') =
              Exclamations(base_response') + (IF AppendsMark(base_response') THEN 1 ELSE 0)
        /\ AppendsMark(base_response') => EndsWith(adapted', "!")
        /\ (last = "adapt_response_style" /\ base_response' = adapted) =>
              /\ Exclamations(adapted') = Exclamations(adapted)
              /\ ~RLt(user_patterns.vocabulary_level, R(3, 10)) => adapted' = adapted
C14_AdaptFrameAndMark == [][C14_Step]_vars

\* C14 witness: a second application, with vocabulary_level >= 0.3, after a
\* first one that appended a "!" to a text the contraction substitutions had
\* changed
C14_Witness ==
    /\ last = "adapt_response_style"
    /\ Len(message_history) = 5
    /\ RLt(R(7, 10), user_patterns.emotional_expressiveness)
    /\ RLt(user_patterns.formality_level, R(3, 10))
    /\ ~RLt(user_patterns.vocabulary_level, R(3, 10))
    /\ base_response = <<"c", "a", "n", "'", "t", "!">>
    /\ adapted = base_response

\* the last start_research call has returned its status, not raised
ResearchReturned == "raised" \notin DOMAIN returned

\* C15: overall_risk is "high" if at least one finding has risk "high",
\* otherwise "medium" if more than one finding has risk "medium", otherwise
\* "low"; one high and two medium findings give "high", exactly one medium
\* and no high finding gives "low"; high_risk_items, medium_risk_items and
\* total_findings are the counts.
C15_OverallRisk ==
    (last = "_assess_privacy_risks" \/ (last = "start_research" /\ ResearchReturned)) =>
        LET highs == {i \in DOMAIN research_results : research_results[i].privacy_risk = "high"}
            mediums == {i \in DOMAIN research_results : research_results[i].privacy_risk = "medium"}
        IN  /\ highs # {} => privacy_risks.overall_risk = "high"
            /\ highs = {} /\ Cardinality(mediums) > 1 => privacy_risks.overall_risk = "medium"
            /\ highs = {} /\ Cardinality(mediums) <= 1 => privacy_risks.overall_risk = "low"
            /\ privacy_risks.high_risk_items = Cardinality(highs)
            /\ privacy_risks.medium_risk_items = Cardinality(mediums)
            /\ privacy_risks.total_findings = Len(research_results)

\* C15 witness: one high and two medium findings assessed
C15_Witness ==
    /\ last = "_assess_privacy_risks"
    /\ privacy_risks.high_risk_items = 1
    /\ privacy_risks.medium_risk_items = 2
    /\ privacy_risks.overall_risk = "high"

\* C17: analyze_message on the empty string returns an analysis whose numeric
\* sub-scores are 0.0 or a default (0.5 for vocabulary_complexity and for
\* sentence_variety, question_ratio 0 / 1), whose six punctuation counts and
\* three personal-reference counts are 0 and whose topics_mentioned is empty.
C17_EmptyMessage ==
    (last = "analyze_message" /\ message = <<>>) =>
        /\ analysis.vocabulary_complexity = Half
        /\ analysis.sentence_variety = Root(R(1, 4))
        /\ analysis.avg_sentence_length = Zero
        /\ analysis.unique_word_ratio = Zero
        /\ analysis.sarcasm_likelihood = Zero
        /\ \A k \in DOMAIN analysis.emotional_indicators : analysis.emotional_indicators[k] = Zero
        /\ \A k \in DOMAIN analysis.humor_indicators : analysis.humor_indicators[k] = Zero
        /\ \A k \in DOMAIN analysis.formality_indicators : analysis.formality_indicators[k] = Zero
        /\ analysis.question_patterns.total_questions = 0
        /\ analysis.question_patterns.question_ratio = R(0, 1)
        /\ \A k \in DOMAIN analysis.question_patterns.question_types :
              analysis.question_patterns.question_types[k] = 0
        /\ DOMAIN analysis.punctuation_style =
              {"exclamation_marks", "question_marks", "ellipses", "dashes", "parentheses",
               "quotation_marks"}
        /\ \A k \in DOMAIN analysis.punctuation_style : analysis.punctuation_style[k] = 0
        /\ \A k \in DOMAIN analysis.personal_references : analysis.personal_references[k] = 0
        /\ analysis.topics_mentioned = <<>>
        /\ message_history[Len(message_history)].analysis = analysis

\* C17 witness: the empty string analysed after two other messages, with
\* topics learned before
C17_Witness ==
    /\ last = "analyze_message"
    /\ message = <<>>
    /\ Len(message_history) = 3
    /\ message_history[1].message # <<>>
    /\ TopicInterests # <<>>

\* the mutable state of each session: profile, the two list objects it
\* refers to, history, persona
Session1State ==
    <<user_patterns, heap[user_patterns.topic_interests],
      heap[user_patterns.communication_quirks], message_history, ren_personality>>
Session2State ==
    <<other_patterns, heap[other_patterns.topic_interests],
      heap[other_patterns.communication_quirks], other_history, other_personality>>

\* C18: two sessions created for different users share no mutable state: a
\* chat or analyze_message call on one of them (the one whose history grows)
\* leaves profile, topic_interests list, history and persona of the other as
\* they are, in every interleaving of the two users' calls.
C18_Step ==
    /\ message_history' # message_history => Session2State' = Session2State
    /\ other_history' # other_history => Session1State' = Session1State
    /\ user_patterns'.topic_interests # other_patterns'.topic_interests
    /\ user_patterns'.communication_quirks # other_patterns'.communication_quirks
C18_SessionsIndependent == [][C18_Step]_vars

\* C18 witness: both users have made their calls, the second one last, and
\* the two sessions have learned different topics in a different order
C18_Witness ==
    /\ Len(message_history) = MaxTurns
    /\ Len(other_history) = MaxTurns
    /\ message_history[1].message # other_history[1].message
    /\ heap[user_patterns.topic_interests] = <<"relationships", "work">>
    /\ heap[other_patterns.topic_interests] = <<"work", "relationships">>
    /\ ren_personality.trust_level # other_personality.trust_level

\* a patterns dict as its holder reads it: its entries, the lists by content
Reading(patterns) ==
    [entries |-> [k \in DOMAIN patterns \ {"topic_interests", "communication_quirks"} |->
                     patterns[k]],
     topic_interests |-> heap[patterns.topic_interests],
     communication_quirks |-> heap[patterns.communication_quirks]]

\* C19: the patterns value of a returned summary is a snapshot: a later
\* analyze_message call changes no field of it (numeric fields, humor_style,
\* the topic_interests list), and changing it does not change the profile of
\* the learner.
C19_Step ==
    /\ (summary # NoValue /\ last' = "analyze_message") =>
          Reading(summary.patterns)' = Reading(summary.patterns)
    /\ last' \in {"caller_appends_topic", "caller_sets_humor_style"} =>
          Reading(user_patterns)' = Reading(user_patterns)
C19_Snapshot == [][C19_Step]_vars

\* the number of chat calls that have returned
ChatsDone == evolve_count

\* C20: a chat call performs, in this order and once each, the trait
\* scoring, one analyze_message (one history entry, one profile update) and
\* one evolve step; after K chat calls messages_analyzed is K and trust_level
\* is min(1.0, 0.1 + 0.01 * K).
C20_State ==
    /\ last \in {"init", "chat"} =>
          /\ get_communication_summary.messages_analyzed = ChatsDone
          /\ ren_personality.trust_level = RMin(One, RAdd(R(1, 10), R(ChatsDone, 100)))
    /\ last = "chat" =>
          /\ scores = analyze_text(message_history[ChatsDone].message)
          /\ ren_response = CautiousReply <=> ChatsDone <= 20
C20_Step ==
    /\ last' = "chat:analyze_text" =>
          /\ last \in {"init", "chat"}
          /\ UNCHANGED <<message_history, user_patterns, heap, ren_personality>>
    /\ last' = "chat:analyze_message" =>
          /\ last = "chat:analyze_text"
          /\ Len(message_history') = Len(message_history) + 1
          /\ message_history'[Len(message_history')].message = text
          /\ UNCHANGED <<scores, ren_personality>>
    /\ last' = "chat:_generate_response" =>
          /\ last = "chat:analyze_message"
          /\ UNCHANGED <<message_history, user_patterns, heap, ren_personality>>
    /\ last' = "chat" =>
          /\ last = "chat:_generate_response"
          /\ ren_personality'.trust_level =
                RMin(One, RAdd(ren_personality.trust_level, R(1, 100)))
          /\ UNCHANGED <<message_history, user_patterns, heap, ren_response>>
C20_ChatOrder == []C20_State /\ [][C20_Step]_vars

\* C20 witness: the chat call that returns with trust_level at its cap for
\* the fifth time
C20_Witness ==
    /\ last = "chat"
    /\ ChatsDone = 95
    /\ Len(message_history) = 95
    /\ ren_personality.trust_level = One
    /\ ren_response \in TemplateReplies

(***************************************************************************)
(* Question ratio of a message.                                            *)
(***************************************************************************)
\* the message is one sentence that ends in a question mark
SingleQuestion(msg) ==
    /\ Len(_split_sentences(msg)) = 1
    /\ CountChar(msg, "?") = 1
    /\ msg[Len(msg)] = "?"

\* C21: question_ratio is total_questions divided by the number of sentences
\* of the message (1 when there are none), so it is 1 for a message that is
\* a single question sentence. The code divides by the number of pieces of
\* re.split(r'[.!?]', message) instead, the empty pieces included: this
\* predicate is violated.
C21_QuestionRatio ==
    last = "analyze_message" =>
        /\ analysis.question_patterns.question_ratio =
              R(analysis.question_patterns.total_questions,
                Max2(Len(_split_sentences(message)), 1))
        /\ SingleQuestion(message) =>
              analysis.question_patterns.question_ratio = One

(***************************************************************************)
(* Linguistic features per sentence.                                       *)
(***************************************************************************)
\* S: the number of non-empty sentences of the text, 1 if there are none
SentenceCount(t) == Max2(Len(KeepNonBlank(SplitRuns(t, SentenceEnd, <<>>))), 1)

\* the words of the text, counted sentence by sentence
WordCount(t) == SentenceWordSum(SplitRuns(t, SentenceEnd, <<>>))

\* C22: for a text with at least one token, linguistic_complexity is
\* min(1, A/20) with A the word count divided by the number S of non-empty
\* sentences, curiosity_indicators is min(1, Q/S) and enthusiasm_indicators
\* is min(1, E/S), Q and E the numbers of '?' and '!'. The code divides by
\* the number of pieces of re.split(r'[.!?]+', text) instead, the empty
\* pieces included: this predicate is violated.
C22_PerSentence ==
    (last = "analyze_text" /\ TextTokens # <<>>) =>
        /\ scores.linguistic_complexity =
              RMin(One, RDiv(R(WordCount(text), SentenceCount(text)), RInt(20)))
        /\ scores.curiosity_indicators =
              RMin(One, R(CountChar(text, "?"), SentenceCount(text)))
        /\ scores.enthusiasm_indicators =
              RMin(One, R(CountChar(text, "!"), SentenceCount(text)))

(***************************************************************************)
(* Keyword lists of the emotional sub-scores.                              *)
(***************************************************************************)
EmotionLists ==
    [excitement |-> ExcitementWords, enthusiasm |-> EnthusiasmWords,
     concern |-> ConcernWords, affection |-> AffectionWords,
     frustration |-> FrustrationWords]

\* the sub-scores the analysis of the last message has raised above 0.0
RaisedEmotions == {e \in DOMAIN EmotionLists : RLt(Zero, analysis.emotional_indicators[e])}

\* C23: the keyword lists of the five emotional sub-scores are pairwise
\* disjoint, so every token of a message is on at most one list and a
\* message of one token without '!' raises at most one sub-score. 'love' is
\* on the enthusiasm list and on the affection list: this predicate is
\* violated.
C23_DisjointLists ==
    last = "analyze_message" =>
        /\ \A i \in 1..Len(MessageTokens(message)) :
              Cardinality({e \in DOMAIN EmotionLists :
                  MessageTokens(message)[i] \in EmotionLists[e]}) <= 1
        /\ (Len(MessageTokens(message)) = 1 /\ CountChar(message, "!") = 0) =>
              Cardinality(RaisedEmotions) <= 1

(***************************************************************************)
(* Self-deprecating humor and first-person references.                     *)
(***************************************************************************)
\* the words of the message, the one-letter words included
MessageWords(msg) == FindAllWords(Lower(msg), "")

\* the self-deprecating keywords among ws with a first-person pronoun within
\* 3 positions
SelfDeprecatingHits(ws) ==
    Cardinality({i \in 1..Len(ws) :
        /\ ws[i] \in {"stupid", "dumb", "idiot", "fail", "mess", "disaster"}
        /\ Context(ws, i, 3, 3) \cap {"i", "me", "my", "myself"} # {}})

\* C24: self_deprecating is 0.1 times the number of self-deprecating keywords
\* of the message with a first-person pronoun (i, me, my, myself) within 3
\* word positions, and first_person counts every occurrence of i, me, my,
\* myself, mine. _tokenize drops the one-letter words, the pronoun 'i' among
\* them, before both are computed: this predicate is violated.
C24_FirstPerson ==
    last = "analyze_message" =>
        /\ analysis.humor_indicators.self_deprecating =
              R(SelfDeprecatingHits(MessageWords(message)), 10)
        /\ analysis.personal_references.first_person =
              CountIn(MessageWords(message), {"i", "me", "my", "myself", "mine"})

(***************************************************************************)
(* Contractions of a message.                                              *)
(***************************************************************************)
\* the places of the message where one of the listed contractions stands
ContractionPlaces(msg) ==
    {i \in 1..Len(msg) :
        /\ i + 2 <= Len(msg)
        /\ Lower(msg)[i] \o Lower(msg)[i + 1] \o Lower(msg)[i + 2] \in Contractions}

\* C25: formality_indicators.contractions is the number of listed
\* contractions among the words of the message divided by the token count
\* (1 if zero), so it is above 0 for a message with the word "don't", and a
\* positive-sentiment word within 2 positions of "don't" adds 0.2 to
\* sarcasm_likelihood. _tokenize splits at the apostrophe (\b\w+\b), so no
\* token ever is a contraction: this predicate is violated.
C25_Contractions ==
    last = "analyze_message" =>
        /\ analysis.formality_indicators.contractions =
              R(Cardinality(ContractionPlaces(message)), Max2(Len(MessageTokens(message)), 1))
        /\ ContractionPlaces(message) # {} =>
              RLt(Zero, analysis.formality_indicators.contractions)
        /\ message = <<"don", "'", "t", " ", "say", " ", "great">> =>
              analysis.sarcasm_likelihood =
                  RAdd(HitRate(MessageTokens(message), {"great"}), R(2, 10))

(***************************************************************************)
(* Frame of the persona state.                                             *)
(***************************************************************************)
FixedPersonaFields ==
    {"conscientiousness", "extraversion", "agreeableness", "neuroticism",
     "humor_style", "curiosity_level"}

C26_State ==
    /\ DOMAIN ren_personality = FixedPersonaFields \cup {"trust_level", "openness"}
    /\ ren_personality.conscientiousness = R(5, 10)
    /\ ren_personality.extraversion = R(5, 10)
    /\ ren_personality.agreeableness = R(8, 10)
    /\ ren_personality.neuroticism = R(3, 10)
    /\ ren_personality.humor_style = "self_aware_sarcastic"
    /\ ren_personality.curiosity_level = R(9, 10)

C26_Step ==
    \A f \in FixedPersonaFields : ren_personality'[f] = ren_personality[f]

\* C26: a chat call, through its evolve step, changes only trust_level and
\* openness of the persona state; the six other fields keep their
\* construction-time values (0.5, 0.5, 0.8, 0.3, 'self_aware_sarcastic', 0.9)
\* after any sequence of chat calls.
C26_PersonaFrame == []C26_State /\ [][C26_Step]_vars

\* C26 witness: three chat calls, the last with a user whose extraversion
\* score is not 0.5, have moved trust_level and openness and nothing else
C26_Witness ==
    /\ last = "chat"
    /\ Len(message_history) = 3
    /\ scores.extraversion # Half
    /\ ren_personality.trust_level = R(13, 100)
    /\ ren_personality.openness # InitRenPersonality.openness
    /\ \A f \in FixedPersonaFields : ren_personality[f] = InitRenPersonality[f]

(***************************************************************************)
(* Conversation count.                                                     *)
(***************************************************************************)
\* C27: the conversations_count get_personality_summary reports is the
\* number of chat calls completed on the RenCore. chat stores the
\* conversation in the database only and never appends to
\* conversation_history, whose length is the count reported: this predicate
\* is violated.
C27_ConversationsCount ==
    last \in {"init", "chat"} =>
        get_personality_summary.conversations_count = ChatsDone

(***************************************************************************)
(* Results of the guardian.                                                *)
(***************************************************************************)
\* C28: in every reachable state of a DigitalGuardian, the freshly
\* constructed one included, get_research_results and
\* generate_privacy_report return without raising, and the
\* privacy_assessment returned has the fields overall_risk, high_risk_items,
\* medium_risk_items and total_findings. Before the first assessment
\* privacy_risks is the empty list __init__ stores, which _generate_summary
\* subscripts with a string: this predicate is violated.
C28_ResultsWithoutRaising ==
    last \in {"get_research_results", "generate_privacy_report"} =>
        /\ "raised" \notin DOMAIN returned
        /\ last = "get_research_results" =>
              DOMAIN returned.privacy_assessment =
                  {"overall_risk", "high_risk_items", "medium_risk_items", "total_findings"}

\* C29: after any number (>= 1) of start_research calls with any user_info
\* the findings are the fixed batch of 5 records (1 high, 1 medium, 3 low),
\* the assessment is 'high' with counts 1, 1 and 5, and the recommendations
\* are the 5 general ones followed by one 'specific' recommendation per
\* high-risk finding. A call whose user_info has a name and an age int()
\* rejects raises ValueError before the findings are stored: this predicate
\* is violated.
C29_FixedBatch ==
    last = "start_research" =>
        /\ research_results = simulated_findings
        /\ Len(research_results) = 5
        /\ RiskCount(research_results, "high") = 1
        /\ RiskCount(research_results, "medium") = 1
        /\ RiskCount(research_results, "low") = 3
        /\ privacy_risks = [overall_risk |-> "high", high_risk_items |-> 1,
                            medium_risk_items |-> 1, total_findings |-> 5]
        /\ LET recommendations == _generate_recommendations(research_results)
           IN  /\ Len(recommendations) = 5 + RiskCount(research_results, "high")
               /\ \A i \in 1..Len(recommendations) :
                     (recommendations[i].category = "specific") <=> (i > 5)

(***************************************************************************)
(* The reply of a chat call and the trust level before the call.           *)
(***************************************************************************)
\* the trust level a fresh RenCore has before its (ChatsDone + 1)-th call
PreCallTrust == RMin(One, RAdd(R(1, 10), R(ChatsDone, 100)))

C30_Step ==
    /\ last' = "chat:_generate_response" =>
          /\ ren_personality.trust_level = PreCallTrust
          /\ ren_response' = CautiousReply <=> RLt(ren_personality.trust_level, R(3, 10))
          /\ ren_response' # CautiousReply => ren_response' \in TemplateReplies
    /\ last' = "chat" =>
          /\ ren_response' = ren_response
          /\ ren_response' = CautiousReply <=> RLt(ren_personality.trust_level, R(3, 10))
          /\ RLe(ren_personality.trust_level, ren_personality'.trust_level)

C30_State ==
    last = "chat" =>
        /\ ChatsDone <= 20 => ren_response = CautiousReply
        /\ ChatsDone = 20 => ren_personality.trust_level = R(3, 10)
        /\ ChatsDone > 20 => ren_response \in TemplateReplies

\* C30: the reply of a chat call is chosen from the trust level as it is
\* before the evolve step of that call: it is the fixed cautious reply
\* exactly when that trust level is below 0.3, so the first 20 calls on a
\* fresh RenCore return the cautious reply (the 20th although it leaves
\* trust_level at 0.3) and the 21st is the first that does not.
C30_ReplyFromPreCallTrust == []C30_State /\ [][C30_Step]_vars

\* C30 witness: the 20th call has returned the cautious reply and left
\* trust_level at 0.3
C30_Witness ==
    /\ last = "chat"
    /\ ChatsDone = 20
    /\ ren_response = CautiousReply
    /\ ren_personality.trust_level = R(3, 10)

====
